---- MODULE Spec2Model ----
(***************************************************************************)
(* Double-entry ledger of go-api-foundry: the application service          *)
(* (ledgerService), the ledger engine (ledgerRepository.ExecuteDoubleEntry)*)
(* and the storage it runs on (accounts, transactions, ledger_entries with *)
(* row locks, a unique index on idempotency_key and READ COMMITTED         *)
(* visibility).  Each worker runs one request at a time; an in-flight      *)
(* ExecuteDoubleEntry advances one storage round-trip per step.            *)
(***************************************************************************)
EXTENDS Integers, FiniteSets, Sequences, TLC

\* ---------------------------------------------------------------- bounds
MaxAccounts == 3
MaxTxns == 2
MaxAmount == 2
MaxFaults == 1
\* int64 columns and variables are modelled as IntBits-bit two's complement
IntBits == 8
\* circuit breaker: largest threshold and recovery timeout configured, and the
\* time the clock runs
MaxThreshold == 2
MaxTimeout == 1
MaxTime == 3
\* retry policies: largest MaxAttempts and BaseDelay configured
MaxRetryAttempts == 3
MaxBaseDelay == 2

\* ------------------------------------------------------- program constants
\* Account ids are strings compared lexicographically; they are modelled by
\* naturals in the same order: "" < SystemAccountID < every generated uuid.
EmptyID == 0
SystemAccountID == 1
AccountTypeUser == "USER"
AccountTypeSystem == "SYSTEM"
TransactionTypeDeposit == "DEPOSIT"
TransactionTypeWithdrawal == "WITHDRAWAL"
TransactionTypeTransfer == "TRANSFER"
EntryTypeDebit == "DEBIT"
EntryTypeCredit == "CREDIT"

\* two clients, each served by its own worker
Procs == {1, 2}
UserIDs == (SystemAccountID + 1)..(SystemAccountID + MaxAccounts)
AllIDs == {SystemAccountID} \cup UserIDs
Currencies == {"USD", "EUR"}
IdempotencyKeys == {"", "k0", "k1", "k2"}
NoProc == 0
Nil == [nil |-> TRUE]

\* ------------------------------------------------------------ pure helpers
Half == 2 ^ (IntBits - 1)
\* Go's wrapping signed arithmetic on int64
Int64(x) == ((x + Half) % (2 * Half)) - Half

\* math.MaxInt64 at the modelled width
MaxInt64 == Half - 1

Put(f, k, v) == [x \in (DOMAIN f) \cup {k} |-> IF x = k THEN v ELSE f[x]]
EmptyMap == [x \in {} |-> 0]
Merge(f, g) == [x \in (DOMAIN f) \cup (DOMAIN g) |-> IF x \in DOMAIN g THEN g[x] ELSE f[x]]

RECURSIVE SumAmounts(_)
SumAmounts(S) ==
  IF S = {} THEN 0
  ELSE LET e == CHOOSE x \in S : TRUE IN e.amount + SumAmounts(S \ {e})

\* the ids in the order the command names them
UnsortedAccountIDs(c) == <<c.SourceAccountID, c.DestAccountID>>

\* slices.Sort on the two-element id slice
SortedAccountIDs(c) ==
  IF c.SourceAccountID <= c.DestAccountID
  THEN <<c.SourceAccountID, c.DestAccountID>>
  ELSE <<c.DestAccountID, c.SourceAccountID>>

NoCmd == [SourceAccountID |-> EmptyID, DestAccountID |-> EmptyID, Amount |-> 0,
          Currency |-> "", TransactionType |-> "", IdempotencyKey |-> ""]
NoCall == [op |-> "", source |-> EmptyID, dest |-> EmptyID]
NoResult == [err |-> "", cause |-> "", txn |-> 0]
NoLocals == [sourceBalanceAfter |-> 0, destBalanceAfter |-> 0, txnID |-> 0, replay |-> FALSE]
NoWrites == [transactions |-> {}, ledger_entries |-> {}, accounts |-> EmptyMap]
NoReading == [account |-> Nil, creditSum |-> 0, transactions |-> <<>>]
NoResponse == Nil

\* request bodies a caller can send (nil included)
MoneyRequests ==
  {Nil} \cup [Amount : (-1)..MaxAmount, Currency : {""} \cup Currencies,
              IdempotencyKey : IdempotencyKeys]
CreateAccountRequests == {Nil} \cup [Currency : {""} \cup Currencies]

\* ---------------------------------------------------------------- workloads
\* A workload fixes which accounts get created and what each client sends;
\* every client may send any request of its repertoire, any number of times,
\* in any order and concurrently with the other client.
\* the ids of the user accounts, in the order of their uuids
A == SystemAccountID + 1
B == SystemAccountID + 2
C == SystemAccountID + 3
Body(amount, currency, key) ==
  [Amount |-> amount, Currency |-> currency, IdempotencyKey |-> key]
Dep(id, amount, key) == [op |-> "Deposit", source |-> SystemAccountID, dest |-> id,
                         body |-> Body(amount, "", key)]
Wdr(id, amount, key) == [op |-> "Withdraw", source |-> id, dest |-> SystemAccountID,
                         body |-> Body(amount, "", key)]
Xfr(s, d, amount, key) == [op |-> "Transfer", source |-> s, dest |-> d,
                           body |-> Body(amount, "", key)]
\* GET /accounts/:id/transactions?limit=..&offset=..: a query value is the
\* sequence of its characters, the empty sequence when the parameter is absent
Get(id, limit, offset) ==
  [op |-> "getTransactionsHandler", account |-> id,
   limitQuery |-> limit, offsetQuery |-> offset]

\* deposits, withdrawals and transfers that name the system account
WorkloadSystem ==
  [users |-> {A}, currencies |-> {""},
   reads |-> <<{}, {[op |-> "Reconcile"],
                    [op |-> "GetTransactions", account |-> SystemAccountID,
                     limit |-> 0, offset |-> 0]}>>,
   client |-> <<{Dep(A, MaxAmount, "k0"), Dep(SystemAccountID, 1, "k1"),
                 Wdr(SystemAccountID, 1, "k2")},
                {Wdr(A, 1, "k1"), Xfr(SystemAccountID, A, 1, "k2"),
                 Xfr(A, SystemAccountID, 1, "k2")}>>]
\* one key reused on the same account with equal and with different bodies
WorkloadSameKey ==
  [users |-> {A}, currencies |-> {""}, reads |-> <<{}, {}>>,
   client |-> <<{Dep(A, 1, "k1"), Dep(A, MaxAmount, "k1"), Wdr(A, 1, "k1")},
                {Dep(A, 1, "k1"), Dep(A, MaxAmount, "k1")}>>]
\* one key reused by requests on disjoint pairs of accounts
WorkloadDisjoint ==
  [users |-> {A, B, C}, currencies |-> {""}, reads |-> <<{}, {}>>,
   client |-> <<{Dep(B, MaxAmount, "k0"), Xfr(B, C, MaxAmount, "k1")},
                {Dep(A, 1, "k1")}>>]
\* transfers in opposite directions and debits racing for the same funds
WorkloadRace ==
  [users |-> {A, B}, currencies |-> {""}, reads |-> <<{}, {}>>,
   client |-> <<{Dep(A, MaxAmount, "k0"), Xfr(A, B, MaxAmount, "k1"), Xfr(A, B, 1, "")},
                {Xfr(B, A, 1, "k2"), Wdr(A, MaxAmount, "k2"), Dep(A, 1, "k2")}>>]
\* accounts in two currencies and requests that state a currency
WorkloadCurrency ==
  [users |-> {A, B}, currencies |-> {"", "EUR"}, reads |-> <<{}, {}>>,
   client |-> <<{Dep(A, 1, "k0"),
                 [op |-> "Deposit", source |-> SystemAccountID, dest |-> A,
                  body |-> Body(1, "EUR", "k1")],
                 [op |-> "Transfer", source |-> A, dest |-> B,
                  body |-> Body(1, "EUR", "k2")]},
                {Xfr(A, B, 1, "k2"),
                 [op |-> "Transfer", source |-> A, dest |-> B,
                  body |-> Body(1, "USD", "k2")]}>>]
\* one client moves money in and out of an account while the other reads it
WorkloadRead ==
  [users |-> {A}, currencies |-> {""},
   client |-> <<{Dep(A, MaxAmount, "k0"), Wdr(A, 1, "k1")}, {}>>,
   reads |-> <<{},
               {[op |-> "GetBalance", account |-> A],
                [op |-> "GetBalance", account |-> EmptyID],
                [op |-> "GetBalanceSnapshot", account |-> A],
                [op |-> "GetTransactions", account |-> A, limit |-> 0, offset |-> 0],
                [op |-> "GetTransactions", account |-> A, limit |-> 1, offset |-> 1],
                [op |-> "GetTransactions", account |-> EmptyID, limit |-> 0, offset |-> 0],
                Get(A, <<>>, <<>>), Get(A, <<"1">>, <<"1">>),
                Get(A, <<"1", "0", "0">>, <<"x">>), Get(A, <<"1", "0", "1">>, <<"-", "1">>),
                Get(A, <<"0">>, <<"0">>), Get(A, <<"-", "1">>, <<>>), Get(A, <<"x">>, <<>>),
                Get(EmptyID, <<>>, <<>>),
                [op |-> "Reconcile"]}>>]
\* requests the service must refuse before it reaches storage, next to a
\* client that sends valid ones
WorkloadInvalid ==
  [users |-> {A, B}, currencies |-> {""}, reads |-> <<{}, {}>>,
   client |-> <<{[op |-> "Deposit", source |-> SystemAccountID, dest |-> A, body |-> Nil],
                 Dep(EmptyID, 1, "k0"), Dep(A, 0, "k0"), Dep(A, -1, "k0"),
                 Dep(EmptyID, 0, "k0"),
                 [op |-> "Withdraw", source |-> A, dest |-> SystemAccountID, body |-> Nil],
                 Wdr(EmptyID, 1, "k1"), Wdr(A, 0, "k1"), Wdr(A, -1, "k1"),
                 [op |-> "Transfer", source |-> A, dest |-> B, body |-> Nil],
                 Xfr(EmptyID, B, 1, "k2"), Xfr(A, EmptyID, 1, "k2"),
                 Xfr(EmptyID, EmptyID, 1, "k2"), Xfr(A, A, 1, "k2"), Xfr(A, A, 0, "k2"),
                 Xfr(A, B, 0, "k2"), Xfr(A, B, -1, "k2")},
                {Dep(A, 1, "k0"), Xfr(A, B, 1, "k1")}>>]
\* mutations that carry no idempotency key
WorkloadEmptyKey ==
  [users |-> {A}, currencies |-> {""}, reads |-> <<{}, {}>>,
   client |-> <<{Dep(A, 1, "")}, {Dep(A, MaxAmount, ""), Wdr(A, 1, "")}>>]
\* a committed key sent again: by the same request after the funds are gone,
\* and by requests that name other accounts, created or not
WorkloadReplay ==
  [users |-> {A, B}, currencies |-> {""}, reads |-> <<{}, {}>>,
   client |-> <<{Dep(A, 1, "k0"), Xfr(A, B, 1, "k1")},
                {Dep(B, 1, "k0"), Xfr(A, B, 1, "k1"), Xfr(B, A, 1, "k1")}>>]
\* deposits of the largest amount an int64 holds
WorkloadOverflow ==
  [users |-> {A}, currencies |-> {""}, reads |-> <<{}, {}>>,
   client |-> <<{Dep(A, MaxInt64, "k0"), Dep(A, 1, "k1")},
                {Dep(A, MaxInt64, "k2"), Dep(A, 1, "k1")}>>]
Workloads ==
  {WorkloadSystem, WorkloadSameKey, WorkloadDisjoint, WorkloadRace, WorkloadCurrency,
   WorkloadRead, WorkloadInvalid, WorkloadEmptyKey, WorkloadReplay}

VARIABLES
  workload,        \* what the clients of this run send
  accounts,        \* committed accounts rows: id -> row
  transactions,    \* committed transactions rows
  ledger_entries,  \* committed ledger_entries rows
  lock,            \* FOR UPDATE row lock holder per account id
  nextID,          \* source of fresh transaction ids (uuid.New)
  faults,          \* storage failures injected so far
  pc,              \* position of each worker
  call,            \* the service operation the worker is running
  cmd,             \* DoubleEntryCommand of the in-flight ExecuteDoubleEntry
  idx,             \* index into the sorted accountIDs slice
  accts,           \* the local accounts map of ExecuteDoubleEntry
  locals,          \* sourceBalanceAfter, destBalanceAfter, txn.ID, idempotent return
  txw,             \* uncommitted writes of the worker's storage transaction
  result,          \* the error (or transaction id) the operation returned
  reading,         \* rows and sums a read operation has fetched so far
  response,        \* the response body of a read operation
  cb,              \* the circuitBreaker struct
  now,             \* time.Now()
  caller,          \* position and locals of each goroutine inside circuitBreaker.Call
  retry,           \* the policy, locals and position of one RetryPolicy.Execute
  mig              \* the arguments, locals, channel and goroutine of one migrations.Up

\* the ledger's variables, and those of the packages around it
ledger == <<workload, accounts, transactions, ledger_entries, lock, nextID, faults,
            pc, call, cmd, idx, accts, locals, txw, result, reading, response>>
infra == <<cb, now, caller, retry, mig>>
vars == <<ledger, infra>>
db == <<accounts, transactions, ledger_entries>>

InFlight == {"lock", "idem", "create_txn", "create_debit", "create_credit",
             "update_source", "update_dest", "commit"}

\* the freshly migrated ledger (the system account is seeded) with idle workers
LedgerEmpty ==
  /\ accounts = [i \in {SystemAccountID} |->
                   [account_type |-> AccountTypeSystem, currency |-> "USD",
                    balance |-> 0, version |-> 0]]
  /\ transactions = {}
  /\ ledger_entries = {}
  /\ lock = [i \in AllIDs |-> NoProc]
  /\ nextID = 1
  /\ faults = 0
  /\ pc = [p \in Procs |-> "idle"]
  /\ call = [p \in Procs |-> NoCall]
  /\ cmd = [p \in Procs |-> NoCmd]
  /\ idx = [p \in Procs |-> 0]
  /\ accts = [p \in Procs |-> EmptyMap]
  /\ locals = [p \in Procs |-> NoLocals]
  /\ txw = [p \in Procs |-> NoWrites]
  /\ result = [p \in Procs |-> NoResult]
  /\ reading = [p \in Procs |-> NoReading]
  /\ response = [p \in Procs |-> NoResponse]

\* no breaker, retry or migration is running
NoCaller == [pc |-> "idle", state |-> "", err |-> "", invoked |-> 0, ret |-> ""]
BreakerIdle ==
  /\ cb = [state |-> "", failures |-> 0, successes |-> 0, nextAttempt |-> 0,
           config |-> [FailureThreshold |-> 0, RecoveryTimeout |-> 0,
                       SuccessThreshold |-> 0]]
  /\ now = 0
  /\ caller = [p \in Procs |-> NoCaller]
RetryIdle == retry = [pc |-> "idle"]
MigrationsIdle == mig = [pc |-> "idle"]

Init == workload \in Workloads /\ LedgerEmpty /\ BreakerIdle /\ RetryIdle /\ MigrationsIdle

\* ------------------------------------------------------ returning to caller
\* the operation returns err without having touched storage
Reject(p, c, err) ==
  /\ pc' = [pc EXCEPT ![p] = "done"]
  /\ call' = [call EXCEPT ![p] = c]
  /\ result' = [result EXCEPT ![p] = [err |-> err, cause |-> "", txn |-> 0]]
  /\ UNCHANGED <<infra, workload, reading, response, accounts, transactions, ledger_entries, lock, nextID, faults,
                 cmd, idx, accts, locals, txw>>

\* the statements run outside a storage transaction: what was written before
\* the failure stays
RollbackKeepsWrites(p, err, cause) ==
  /\ pc' = [pc EXCEPT ![p] = "done"]
  /\ result' = [result EXCEPT ![p] = [err |-> err, cause |-> cause, txn |-> 0]]
  /\ lock' = [i \in AllIDs |-> IF lock[i] = p THEN NoProc ELSE lock[i]]
  /\ accounts' = Merge(accounts, txw[p].accounts)
  /\ transactions' = transactions \cup txw[p].transactions
  /\ ledger_entries' = ledger_entries \cup txw[p].ledger_entries
  /\ txw' = [txw EXCEPT ![p] = NoWrites]
  /\ accts' = [accts EXCEPT ![p] = EmptyMap]
  /\ locals' = [locals EXCEPT ![p] = NoLocals]
  /\ idx' = [idx EXCEPT ![p] = 0]
  /\ UNCHANGED <<infra, workload, reading, response, nextID, call, cmd>>

\* db.Transaction: fn returned err -> ROLLBACK; locks released, writes dropped
Rollback(p, err, cause) ==
  /\ pc' = [pc EXCEPT ![p] = "done"]
  /\ result' = [result EXCEPT ![p] = [err |-> err, cause |-> cause, txn |-> 0]]
  /\ lock' = [i \in AllIDs |-> IF lock[i] = p THEN NoProc ELSE lock[i]]
  /\ txw' = [txw EXCEPT ![p] = NoWrites]
  /\ accts' = [accts EXCEPT ![p] = EmptyMap]
  /\ locals' = [locals EXCEPT ![p] = NoLocals]
  /\ idx' = [idx EXCEPT ![p] = 0]
  /\ UNCHANGED <<infra, workload, reading, response, accounts, transactions, ledger_entries, nextID, call, cmd>>

\* s.repository.ExecuteDoubleEntry(ctx, cmd): the storage transaction begins
\* (no new call is admitted once MaxTxns transaction ids have been drawn)
Begin(p, c, k) ==
  /\ nextID <= MaxTxns
  /\ pc' = [pc EXCEPT ![p] = "lock"]
  /\ call' = [call EXCEPT ![p] = c]
  /\ cmd' = [cmd EXCEPT ![p] = k]
  /\ idx' = [idx EXCEPT ![p] = 1]
  /\ UNCHANGED <<infra, workload, reading, response, accounts, transactions, ledger_entries, lock, nextID, faults,
                 accts, locals, txw, result>>

\* ------------------------------------------------------ application service
\* CreateAccount storing the account as a second SYSTEM account
CreateAccountAsSystem(p, req) ==
  /\ pc[p] = "idle"
  /\ LET c == [op |-> "CreateAccount", source |-> EmptyID, dest |-> EmptyID] IN
     IF req = Nil
     THEN Reject(p, c, "InvalidRequest")
     ELSE \E id \in workload.users \ DOMAIN accounts :
            /\ accounts' = Put(accounts, id,
                  [account_type |-> AccountTypeSystem,
                   currency |-> IF req.Currency = "" THEN "USD" ELSE req.Currency,
                   balance |-> 0, version |-> 0])
            /\ pc' = [pc EXCEPT ![p] = "done"]
            /\ call' = [call EXCEPT ![p] = [c EXCEPT !.dest = id]]
            /\ result' = [result EXCEPT ![p] = NoResult]
            /\ UNCHANGED <<infra, workload, reading, response, transactions, ledger_entries, lock,
                           nextID, faults, cmd, idx, accts, locals, txw>>

CreateAccount(p, req) ==
  /\ pc[p] = "idle"
  /\ LET c == [op |-> "CreateAccount", source |-> EmptyID, dest |-> EmptyID] IN
     IF req = Nil
     THEN Reject(p, c, "InvalidRequest")
     ELSE \E id \in workload.users \ DOMAIN accounts :
            /\ accounts' = Put(accounts, id,
                  [account_type |-> AccountTypeUser,
                   currency |-> IF req.Currency = "" THEN "USD" ELSE req.Currency,
                   balance |-> 0, version |-> 0])
            /\ pc' = [pc EXCEPT ![p] = "done"]
            /\ call' = [call EXCEPT ![p] = [c EXCEPT !.dest = id]]
            /\ result' = [result EXCEPT ![p] = NoResult]
            /\ UNCHANGED <<infra, workload, reading, response, transactions, ledger_entries, lock, nextID, faults,
                           cmd, idx, accts, locals, txw>>

Deposit(p, accountID, req) ==
  /\ pc[p] = "idle"
  /\ LET c == [op |-> "Deposit", source |-> SystemAccountID, dest |-> accountID,
               req |-> req] IN
     IF req = Nil THEN Reject(p, c, "InvalidRequest")
     ELSE IF accountID = EmptyID THEN Reject(p, c, "InvalidRequest")
     ELSE IF req.Amount <= 0 THEN Reject(p, c, "InvalidAmount")
     ELSE Begin(p, c, [SourceAccountID |-> SystemAccountID,
                       DestAccountID |-> accountID,
                       Amount |-> req.Amount,
                       Currency |-> req.Currency,
                       TransactionType |-> TransactionTypeDeposit,
                       IdempotencyKey |-> req.IdempotencyKey])

\* Withdraw building its command with source and destination exchanged
WithdrawSwapped(p, accountID, req) ==
  /\ pc[p] = "idle"
  /\ LET c == [op |-> "Withdraw", source |-> accountID, dest |-> SystemAccountID,
               req |-> req] IN
     IF req = Nil THEN Reject(p, c, "InvalidRequest")
     ELSE IF accountID = EmptyID THEN Reject(p, c, "InvalidRequest")
     ELSE IF req.Amount <= 0 THEN Reject(p, c, "InvalidAmount")
     ELSE Begin(p, c, [SourceAccountID |-> SystemAccountID,
                       DestAccountID |-> accountID,
                       Amount |-> req.Amount,
                       Currency |-> req.Currency,
                       TransactionType |-> TransactionTypeWithdrawal,
                       IdempotencyKey |-> req.IdempotencyKey])

Withdraw(p, accountID, req) ==
  /\ pc[p] = "idle"
  /\ LET c == [op |-> "Withdraw", source |-> accountID, dest |-> SystemAccountID,
               req |-> req] IN
     IF req = Nil THEN Reject(p, c, "InvalidRequest")
     ELSE IF accountID = EmptyID THEN Reject(p, c, "InvalidRequest")
     ELSE IF req.Amount <= 0 THEN Reject(p, c, "InvalidAmount")
     ELSE Begin(p, c, [SourceAccountID |-> accountID,
                       DestAccountID |-> SystemAccountID,
                       Amount |-> req.Amount,
                       Currency |-> req.Currency,
                       TransactionType |-> TransactionTypeWithdrawal,
                       IdempotencyKey |-> req.IdempotencyKey])

\* Transfer without the comparison of its two account ids
TransferNoSelfCheck(p, src, dst, req) ==
  /\ pc[p] = "idle"
  /\ LET c == [op |-> "Transfer", source |-> src, dest |-> dst, req |-> req] IN
     IF req = Nil THEN Reject(p, c, "InvalidRequest")
     ELSE IF src = EmptyID \/ dst = EmptyID THEN Reject(p, c, "InvalidRequest")
     ELSE IF req.Amount <= 0 THEN Reject(p, c, "InvalidAmount")
     ELSE Begin(p, c, [SourceAccountID |-> src,
                       DestAccountID |-> dst,
                       Amount |-> req.Amount,
                       Currency |-> req.Currency,
                       TransactionType |-> TransactionTypeTransfer,
                       IdempotencyKey |-> req.IdempotencyKey])

Transfer(p, src, dst, req) ==
  /\ pc[p] = "idle"
  /\ LET c == [op |-> "Transfer", source |-> src, dest |-> dst, req |-> req] IN
     IF req = Nil THEN Reject(p, c, "InvalidRequest")
     ELSE IF src = EmptyID \/ dst = EmptyID THEN Reject(p, c, "InvalidRequest")
     ELSE IF src = dst THEN Reject(p, c, "SelfTransfer")
     ELSE IF req.Amount <= 0 THEN Reject(p, c, "InvalidAmount")
     ELSE Begin(p, c, [SourceAccountID |-> src,
                       DestAccountID |-> dst,
                       Amount |-> req.Amount,
                       Currency |-> req.Currency,
                       TransactionType |-> TransactionTypeTransfer,
                       IdempotencyKey |-> req.IdempotencyKey])

\* the caller takes the response; the worker is free for the next request
Return(p) ==
  /\ pc[p] = "done"
  /\ pc' = [pc EXCEPT ![p] = "idle"]
  /\ call' = [call EXCEPT ![p] = NoCall]
  /\ cmd' = [cmd EXCEPT ![p] = NoCmd]
  /\ result' = [result EXCEPT ![p] = NoResult]
  /\ response' = [response EXCEPT ![p] = NoResponse]
  /\ UNCHANGED <<infra, workload, reading, accounts, transactions, ledger_entries, lock, nextID, faults,
                 idx, accts, locals, txw>>

\* ------------------------------------------- ledger engine: ExecuteDoubleEntry
\* a plain SELECT: the row is read without waiting for its lock
LockNotExclusive(p, id) == TRUE

\* SELECT ... FOR UPDATE is granted when no other transaction holds the row
LockGranted(p, id) == lock[id] \in {NoProc, p}

\* Step 2: lock the accounts in sorted order, loading each row into accounts[id]
LockAccount(p) ==
  /\ pc[p] = "lock"
  /\ LET id == SortedAccountIDs(cmd[p])[idx[p]] IN
     IF id \notin DOMAIN accounts
     THEN Rollback(p, "ErrAccountNotFound", "") /\ UNCHANGED faults
     ELSE /\ LockGranted(p, id)
          /\ lock' = [lock EXCEPT ![id] = p]
          /\ accts' = [accts EXCEPT ![p] = Put(accts[p], id, accounts[id])]
          /\ IF idx[p] = 2
             THEN pc' = [pc EXCEPT ![p] = "idem"] /\ idx' = [idx EXCEPT ![p] = 0]
             ELSE pc' = pc /\ idx' = [idx EXCEPT ![p] = 2]
          /\ UNCHANGED <<infra, workload, reading, response, accounts, transactions, ledger_entries, nextID, faults,
                         call, cmd, locals, txw, result>>

\* no lookup by idempotency key
NoLookup(c) == {}

\* the committed transaction carrying the command's key, if any
ExistingByKey(c) ==
  IF c.IdempotencyKey # ""
  THEN {t \in transactions : t.idempotency_key = c.IdempotencyKey}
  ELSE {}

\* the idempotency match comparing the accounts of the entries as well
IdempotencyMismatchOnAccounts(existing, c) ==
  \/ existing.amount # c.Amount
  \/ existing.transaction_type # c.TransactionType
  \/ \E e \in ledger_entries :
        /\ e.transaction_id = existing.id
        /\ e.account_id # (IF e.entry_type = EntryTypeDebit
                           THEN c.SourceAccountID ELSE c.DestAccountID)

IdempotencyMismatch(existing, c) ==
  existing.amount # c.Amount \/ existing.transaction_type # c.TransactionType

\* the currency check comparing the two accounts only
CurrencyMismatchIgnoresCommand(source, dest, c) ==
  source.currency # dest.currency

CurrencyMismatch(source, dest, c) ==
  \/ source.currency # dest.currency
  \/ (c.Currency # "" /\ c.Currency # source.currency)

\* the balance check applied to the wrong account type
InsufficientFundsWrongType(source, c) ==
  source.account_type = AccountTypeSystem /\ source.balance < c.Amount

\* the balance check refusing a debit of the whole balance
InsufficientFundsAtZero(source, c) ==
  source.account_type = AccountTypeUser /\ source.balance <= c.Amount

InsufficientFunds(source, c) ==
  source.account_type = AccountTypeUser /\ source.balance < c.Amount

\* currency validation and the balance check placed before the idempotency
\* resolution
ResolveChecksFirst(p, found, lookupFailed) ==
  LET c == cmd[p]
      source == accts[p][c.SourceAccountID]
      dest == accts[p][c.DestAccountID]
  IN
  IF CurrencyMismatch(source, dest, c)
  THEN Rollback(p, "ErrCurrencyMismatch", "")
  ELSE IF InsufficientFunds(source, c)
  THEN Rollback(p, "ErrInsufficientFunds", "")
  ELSE IF found # {}
  THEN LET existing == CHOOSE t \in found : TRUE IN
       IF IdempotencyMismatch(existing, c)
       THEN Rollback(p, "ErrIdempotencyConflict", "")
       ELSE /\ locals' = [locals EXCEPT ![p].replay = TRUE, ![p].txnID = existing.id]
            /\ pc' = [pc EXCEPT ![p] = "commit"]
            /\ UNCHANGED <<infra, workload, reading, response, accounts, transactions,
                           ledger_entries, lock, nextID, call, cmd, idx, accts, txw, result>>
  ELSE IF lookupFailed
  THEN Rollback(p, "DatabaseError", "failed to create transaction")
  ELSE /\ pc' = [pc EXCEPT ![p] = "create_txn"]
       /\ UNCHANGED <<infra, workload, reading, response, accounts, transactions, ledger_entries,
                      lock, nextID, call, cmd, idx, accts, locals, txw, result>>

\* Steps 3-5: idempotency resolution over the rows the lookup returned, then
\* currency validation and the balance check.  A lookup whose query fails
\* (lookupFailed) is treated by the code as "no such transaction"; the
\* transaction is then aborted, so the INSERT of step 6 fails.
Resolve(p, found, lookupFailed) ==
  LET c == cmd[p]
      source == accts[p][c.SourceAccountID]
      dest == accts[p][c.DestAccountID]
  IN
  IF found # {}
  THEN LET existing == CHOOSE t \in found : TRUE IN
       IF IdempotencyMismatch(existing, c)
       THEN Rollback(p, "ErrIdempotencyConflict", "")
       ELSE /\ locals' = [locals EXCEPT ![p].replay = TRUE, ![p].txnID = existing.id]
            /\ pc' = [pc EXCEPT ![p] = "commit"]
            /\ UNCHANGED <<infra, workload, reading, response, accounts, transactions, ledger_entries, lock, nextID,
                           call, cmd, idx, accts, txw, result>>
  ELSE IF CurrencyMismatch(source, dest, c)
  THEN Rollback(p, "ErrCurrencyMismatch", "")
  ELSE IF InsufficientFunds(source, c)
  THEN Rollback(p, "ErrInsufficientFunds", "")
  ELSE IF lookupFailed
  THEN Rollback(p, "DatabaseError", "failed to create transaction")
  ELSE /\ pc' = [pc EXCEPT ![p] = "create_txn"]
       /\ UNCHANGED <<infra, workload, reading, response, accounts, transactions, ledger_entries, lock, nextID,
                      call, cmd, idx, accts, locals, txw, result>>

Validate(p) ==
  /\ pc[p] = "idem"
  /\ Resolve(p, ExistingByKey(cmd[p]), FALSE)
  /\ UNCHANGED faults

\* the unique index on transactions.idempotency_key ('' is a value like any other)
KeyCommitted(k) == \E t \in transactions : t.idempotency_key = k
KeyPending(p, k) ==
  \E q \in Procs \ {p} : \E t \in txw[q].transactions : t.idempotency_key = k

\* Step 6: INSERT the transaction row
CreateTransaction(p) ==
  /\ pc[p] = "create_txn"
  /\ LET c == cmd[p]
         source == accts[p][c.SourceAccountID]
         txn == [id |-> nextID,
                 idempotency_key |-> c.IdempotencyKey,
                 transaction_type |-> c.TransactionType,
                 amount |-> c.Amount,
                 currency |-> source.currency]
     IN
     IF KeyCommitted(c.IdempotencyKey)
     THEN Rollback(p, "DatabaseError", "failed to create transaction") /\ UNCHANGED faults
     ELSE /\ ~KeyPending(p, c.IdempotencyKey)
          /\ txw' = [txw EXCEPT ![p].transactions = {txn}]
          /\ locals' = [locals EXCEPT ![p].txnID = nextID]
          /\ nextID' = nextID + 1
          /\ pc' = [pc EXCEPT ![p] = "create_debit"]
          /\ UNCHANGED <<infra, workload, reading, response, accounts, transactions, ledger_entries, lock, faults,
                         call, cmd, idx, accts, result>>

\* the DEBIT entry recording the source's balance before the debit
CreateDebitEntryBalanceBefore(p) ==
  /\ pc[p] = "create_debit"
  /\ LET c == cmd[p]
         source == accts[p][c.SourceAccountID]
         sourceBalanceAfter == Int64(source.balance - c.Amount)
         debitEntry == [transaction_id |-> locals[p].txnID,
                        account_id |-> c.SourceAccountID,
                        entry_type |-> EntryTypeDebit,
                        amount |-> c.Amount,
                        balance_after |-> source.balance]
     IN
     /\ locals' = [locals EXCEPT ![p].sourceBalanceAfter = sourceBalanceAfter]
     /\ txw' = [txw EXCEPT ![p].ledger_entries = @ \cup {debitEntry}]
     /\ pc' = [pc EXCEPT ![p] = "create_credit"]
     /\ UNCHANGED <<infra, workload, reading, response, accounts, transactions, ledger_entries, lock,
                    nextID, faults, call, cmd, idx, accts, result>>

\* Step 7: INSERT the DEBIT entry on the source account
CreateDebitEntry(p) ==
  /\ pc[p] = "create_debit"
  /\ LET c == cmd[p]
         source == accts[p][c.SourceAccountID]
         sourceBalanceAfter == Int64(source.balance - c.Amount)
         debitEntry == [transaction_id |-> locals[p].txnID,
                        account_id |-> c.SourceAccountID,
                        entry_type |-> EntryTypeDebit,
                        amount |-> c.Amount,
                        balance_after |-> sourceBalanceAfter]
     IN
     /\ locals' = [locals EXCEPT ![p].sourceBalanceAfter = sourceBalanceAfter]
     /\ txw' = [txw EXCEPT ![p].ledger_entries = @ \cup {debitEntry}]
     /\ pc' = [pc EXCEPT ![p] = "create_credit"]
     /\ UNCHANGED <<infra, workload, reading, response, accounts, transactions, ledger_entries, lock, nextID, faults,
                    call, cmd, idx, accts, result>>

\* the second entry written as a DEBIT as well
CreateCreditEntryAsDebit(p) ==
  /\ pc[p] = "create_credit"
  /\ LET c == cmd[p]
         dest == accts[p][c.DestAccountID]
         destBalanceAfter == Int64(dest.balance + c.Amount)
         creditEntry == [transaction_id |-> locals[p].txnID,
                         account_id |-> c.DestAccountID,
                         entry_type |-> EntryTypeDebit,
                         amount |-> c.Amount,
                         balance_after |-> destBalanceAfter]
     IN
     /\ locals' = [locals EXCEPT ![p].destBalanceAfter = destBalanceAfter]
     /\ txw' = [txw EXCEPT ![p].ledger_entries = @ \cup {creditEntry}]
     /\ pc' = [pc EXCEPT ![p] = "update_source"]
     /\ UNCHANGED <<infra, workload, reading, response, accounts, transactions, ledger_entries, lock, nextID, faults,
                    call, cmd, idx, accts, result>>

\* Step 8: INSERT the CREDIT entry on the destination account
CreateCreditEntry(p) ==
  /\ pc[p] = "create_credit"
  /\ LET c == cmd[p]
         dest == accts[p][c.DestAccountID]
         destBalanceAfter == Int64(dest.balance + c.Amount)
         creditEntry == [transaction_id |-> locals[p].txnID,
                         account_id |-> c.DestAccountID,
                         entry_type |-> EntryTypeCredit,
                         amount |-> c.Amount,
                         balance_after |-> destBalanceAfter]
     IN
     /\ locals' = [locals EXCEPT ![p].destBalanceAfter = destBalanceAfter]
     /\ txw' = [txw EXCEPT ![p].ledger_entries = @ \cup {creditEntry}]
     /\ pc' = [pc EXCEPT ![p] = "update_source"]
     /\ UNCHANGED <<infra, workload, reading, response, accounts, transactions, ledger_entries, lock, nextID, faults,
                    call, cmd, idx, accts, result>>

\* tx.Model(acc).Updates(balance, version): the row is written inside the
\* transaction and gorm assigns the new values to the struct acc points to
UpdatedAccount(acc, balanceAfter) ==
  [acc EXCEPT !.balance = balanceAfter, !.version = Int64(acc.version + 1)]

\* Step 9
UpdateSource(p) ==
  /\ pc[p] = "update_source"
  /\ LET id == cmd[p].SourceAccountID
         row == UpdatedAccount(accts[p][id], locals[p].sourceBalanceAfter)
     IN
     /\ txw' = [txw EXCEPT ![p].accounts = Put(@, id, row)]
     /\ accts' = [accts EXCEPT ![p] = Put(@, id, row)]
     /\ pc' = [pc EXCEPT ![p] = "update_dest"]
     /\ UNCHANGED <<infra, workload, reading, response, accounts, transactions, ledger_entries, lock, nextID, faults,
                    call, cmd, idx, locals, result>>

\* Step 10
UpdateDest(p) ==
  /\ pc[p] = "update_dest"
  /\ LET id == cmd[p].DestAccountID
         row == UpdatedAccount(accts[p][id], locals[p].destBalanceAfter)
     IN
     /\ txw' = [txw EXCEPT ![p].accounts = Put(@, id, row)]
     /\ accts' = [accts EXCEPT ![p] = Put(@, id, row)]
     /\ pc' = [pc EXCEPT ![p] = "commit"]
     /\ UNCHANGED <<infra, workload, reading, response, accounts, transactions, ledger_entries, lock, nextID, faults,
                    call, cmd, idx, locals, result>>

\* what COMMIT makes visible of a transaction's writes
Committed(w) ==
  [accounts |-> Merge(accounts, w.accounts),
   transactions |-> transactions \cup w.transactions,
   ledger_entries |-> ledger_entries \cup w.ledger_entries]

\* Step 11: fn returned nil, db.Transaction commits and the locks are released
Commit(p) ==
  /\ pc[p] = "commit"
  /\ accounts' = Committed(txw[p]).accounts
  /\ transactions' = Committed(txw[p]).transactions
  /\ ledger_entries' = Committed(txw[p]).ledger_entries
  /\ lock' = [i \in AllIDs |-> IF lock[i] = p THEN NoProc ELSE lock[i]]
  /\ result' = [result EXCEPT ![p] = [err |-> "", cause |-> "", txn |-> locals[p].txnID]]
  /\ pc' = [pc EXCEPT ![p] = "done"]
  /\ txw' = [txw EXCEPT ![p] = NoWrites]
  /\ accts' = [accts EXCEPT ![p] = EmptyMap]
  /\ locals' = [locals EXCEPT ![p] = NoLocals]
  /\ UNCHANGED <<infra, workload, reading, response, nextID, faults, call, cmd, idx>>

\* the message of the DatabaseError that wraps a failed statement
FailureMessage(at) ==
  CASE at = "lock" -> "failed to lock account"
    [] at = "create_txn" -> "failed to create transaction"
    [] at = "create_debit" -> "failed to create debit entry"
    [] at = "create_credit" -> "failed to create credit entry"
    [] at = "update_source" -> "failed to update source account"
    [] at = "update_dest" -> "failed to update destination account"

\* a storage round-trip fails (cancelled context, connection loss, lock
\* timeout, ...): the statement's error is wrapped in a DatabaseError and the
\* transaction rolls back; a failed COMMIT is returned as the driver's own
\* error; the lookup is a round-trip only when the command carries a key
StorageFailure(p) ==
  /\ pc[p] \in InFlight
  /\ pc[p] = "idem" => cmd[p].IdempotencyKey # ""
  /\ faults < MaxFaults
  /\ faults' = faults + 1
  /\ IF pc[p] = "idem" THEN Resolve(p, {}, TRUE)
     ELSE IF pc[p] = "commit" THEN Rollback(p, "driver error", "commit failed")
     ELSE Rollback(p, "DatabaseError", FailureMessage(pc[p]))

\* ------------------------------------------------------------ read operations
ReadInFlight == {"get_account", "sum_credits", "sum_debits", "snap_account",
                 "snap_derived", "find_txns", "preload", "reconcile"}

\* a read operation starts: the worker is about to send its first statement
BeginRead(p, c, at) ==
  /\ pc' = [pc EXCEPT ![p] = at]
  /\ call' = [call EXCEPT ![p] = c]
  /\ UNCHANGED <<infra, workload, reading, response, accounts, transactions, ledger_entries, lock,
                 nextID, faults, cmd, idx, accts, locals, txw, result>>

\* a read operation returns err (or nil) and its response body
FinishRead(p, err, cause, body) ==
  /\ pc' = [pc EXCEPT ![p] = "done"]
  /\ result' = [result EXCEPT ![p] = [err |-> err, cause |-> cause, txn |-> 0]]
  /\ response' = [response EXCEPT ![p] = body]
  /\ reading' = [reading EXCEPT ![p] = NoReading]
  /\ UNCHANGED <<infra, workload, accounts, transactions, ledger_entries, lock, nextID, faults,
                 call, cmd, idx, accts, locals, txw>>

GetBalance(p, accountID) ==
  /\ pc[p] = "idle"
  /\ LET c == [op |-> "GetBalance", source |-> accountID, dest |-> EmptyID] IN
     IF accountID = EmptyID THEN Reject(p, c, "InvalidRequest")
     ELSE BeginRead(p, c, "get_account")

GetTransactions(p, accountID, limit, offset) ==
  /\ pc[p] = "idle"
  /\ LET c == [op |-> "GetTransactions", source |-> accountID, dest |-> EmptyID,
               limit |-> limit, offset |-> offset] IN
     IF accountID = EmptyID THEN Reject(p, c, "InvalidRequest")
     ELSE BeginRead(p, c, "get_account")

defaultPageLimit == 50
maxPageLimit == 100

\* strconv.Atoi: an optional sign followed by decimal digits
Digits == <<"0", "1", "2", "3", "4", "5", "6", "7", "8", "9">>
IsDigit(ch) == \E i \in 1..Len(Digits) : Digits[i] = ch
DigitValue(ch) == (CHOOSE i \in 1..Len(Digits) : Digits[i] = ch) - 1
RECURSIVE Decimal(_)
Decimal(s) ==
  IF s = <<>> THEN 0
  ELSE Decimal(SubSeq(s, 1, Len(s) - 1)) * Len(Digits) + DigitValue(s[Len(s)])
Atoi(s) ==
  LET signed == s # <<>> /\ s[1] \in {"+", "-"}
      digits == IF signed THEN Tail(s) ELSE s
  IN IF digits = <<>> \/ \E i \in 1..Len(digits) : ~IsDigit(digits[i])
     THEN [err |-> TRUE, value |-> 0]
     ELSE [err |-> FALSE,
           value |-> IF signed /\ s[1] = "-" THEN 0 - Decimal(digits) ELSE Decimal(digits)]

\* the handler taking any positive limit
getTransactionsHandlerNoCap(p, id, l, o) ==
  /\ pc[p] = "idle"
  /\ IF id = EmptyID
     THEN Reject(p, [op |-> "getTransactionsHandler", source |-> id, dest |-> EmptyID],
                 "BadRequest")
     ELSE LET limit == IF l # <<>> /\ ~Atoi(l).err /\ Atoi(l).value > 0
                       THEN Atoi(l).value ELSE defaultPageLimit
              offset == IF o # <<>> /\ ~Atoi(o).err /\ Atoi(o).value >= 0
                        THEN Atoi(o).value ELSE 0
          IN GetTransactions(p, id, limit, offset)

\* GET /accounts/:id/transactions: limit and offset are taken from the query
\* when they parse and are in range, else the defaults; then the service runs
getTransactionsHandler(p, id, l, o) ==
  /\ pc[p] = "idle"
  /\ IF id = EmptyID
     THEN Reject(p, [op |-> "getTransactionsHandler", source |-> id, dest |-> EmptyID],
                 "BadRequest")
     ELSE LET limit == IF l # <<>> /\ ~Atoi(l).err /\ Atoi(l).value > 0
                          /\ Atoi(l).value <= maxPageLimit
                       THEN Atoi(l).value ELSE defaultPageLimit
              offset == IF o # <<>> /\ ~Atoi(o).err /\ Atoi(o).value >= 0
                        THEN Atoi(o).value ELSE 0
          IN GetTransactions(p, id, limit, offset)

\* SELECT * FROM accounts WHERE id = ? as a statement of its own; the row read
\* is the one committed at this moment, whoever holds its lock
GetAccountByID(p) ==
  /\ pc[p] = "get_account"
  /\ LET id == call[p].source IN
     IF id \notin DOMAIN accounts
     THEN FinishRead(p, "ErrAccountNotFound", "", NoResponse)
     ELSE /\ reading' = [reading EXCEPT ![p].account = accounts[id]]
          /\ pc' = [pc EXCEPT ![p] =
                      IF call[p].op = "GetBalance" THEN "sum_credits" ELSE "find_txns"]
          /\ UNCHANGED <<infra, workload, response, accounts, transactions, ledger_entries, lock,
                         nextID, faults, call, cmd, idx, accts, locals, txw, result>>

\* GetDerivedBalance, first statement: SUM(amount) of the account's CREDIT entries
SumCredits(p) ==
  /\ pc[p] = "sum_credits"
  /\ reading' = [reading EXCEPT ![p].creditSum =
                   SumAmounts({e \in ledger_entries :
                      e.account_id = call[p].source /\ e.entry_type = EntryTypeCredit})]
  /\ pc' = [pc EXCEPT ![p] = "sum_debits"]
  /\ UNCHANGED <<infra, workload, response, accounts, transactions, ledger_entries, lock,
                 nextID, faults, call, cmd, idx, accts, locals, txw, result>>

\* GetDerivedBalance, second statement: SUM(amount) of the DEBIT entries; then
\* GetBalance builds its response
SumDebits(p) ==
  /\ pc[p] = "sum_debits"
  /\ LET debitSum == SumAmounts({e \in ledger_entries :
                        e.account_id = call[p].source /\ e.entry_type = EntryTypeDebit})
         derived == Int64(reading[p].creditSum - debitSum)
         account == reading[p].account
     IN FinishRead(p, "", "",
          [AccountID |-> call[p].source,
           CachedBalance |-> account.balance,
           DerivedBalance |-> derived,
           Currency |-> account.currency,
           IsConsistent |-> (account.balance = derived)])

\* the repository's snapshot read: a storage transaction at the default
\* isolation level (READ COMMITTED), in which every statement sees what is
\* committed when that statement starts
GetBalanceSnapshot(p, accountID) ==
  /\ pc[p] = "idle"
  /\ BeginRead(p, [op |-> "GetBalanceSnapshot", source |-> accountID, dest |-> EmptyID],
               "snap_account")

SnapshotAccount(p) ==
  /\ pc[p] = "snap_account"
  /\ LET id == call[p].source IN
     IF id \notin DOMAIN accounts
     THEN FinishRead(p, "ErrAccountNotFound", "", NoResponse)
     ELSE /\ reading' = [reading EXCEPT ![p].account = accounts[id]]
          /\ pc' = [pc EXCEPT ![p] = "snap_derived"]
          /\ UNCHANGED <<infra, workload, response, accounts, transactions, ledger_entries, lock,
                         nextID, faults, call, cmd, idx, accts, locals, txw, result>>

SnapshotDerived(p) ==
  /\ pc[p] = "snap_derived"
  /\ LET id == call[p].source
         derived == Int64(SumAmounts({e \in ledger_entries :
                            e.account_id = id /\ e.entry_type = EntryTypeCredit})
                          - SumAmounts({e \in ledger_entries :
                            e.account_id = id /\ e.entry_type # EntryTypeCredit}))
     IN FinishRead(p, "", "",
          [AccountID |-> id,
           CachedBalance |-> reading[p].account.balance,
           DerivedBalance |-> derived,
           Currency |-> reading[p].account.currency])

\* ORDER BY created_at ASC
RECURSIVE OrderByCreatedAtAsc(_)
OrderByCreatedAtAsc(S) ==
  IF S = {} THEN <<>>
  ELSE LET t == CHOOSE x \in S : \A y \in S : y.id >= x.id
       IN <<t>> \o OrderByCreatedAtAsc(S \ {t})

\* ORDER BY created_at DESC; a transaction's created_at is the time of its
\* INSERT, and ids are drawn in that order
RECURSIVE OrderByCreatedAtDesc(_)
OrderByCreatedAtDesc(S) ==
  IF S = {} THEN <<>>
  ELSE LET t == CHOOSE x \in S : \A y \in S : y.id <= x.id
       IN <<t>> \o OrderByCreatedAtDesc(S \ {t})

\* query.Limit(limit) if limit > 0, query.Offset(offset) if offset > 0
Page(rows, limit, offset) ==
  LET rest == IF offset > 0 THEN SubSeq(rows, offset + 1, Len(rows)) ELSE rows
  IN IF limit > 0 /\ limit < Len(rest) THEN SubSeq(rest, 1, limit) ELSE rest

\* GetTransactionsByAccountID, main query: the transactions that have an entry
\* on the account
FindTransactions(p) ==
  /\ pc[p] = "find_txns"
  /\ LET ids == {e.transaction_id : e \in {x \in ledger_entries : x.account_id = call[p].source}}
         rows == Page(OrderByCreatedAtDesc({t \in transactions : t.id \in ids}),
                      call[p].limit, call[p].offset)
     IN
     /\ reading' = [reading EXCEPT ![p].transactions = rows]
     /\ pc' = [pc EXCEPT ![p] = "preload"]
     /\ UNCHANGED <<infra, workload, response, accounts, transactions, ledger_entries, lock,
                    nextID, faults, call, cmd, idx, accts, locals, txw, result>>

\* Preload("Entries"): a second statement loads the entries of the rows found;
\* GetTransactions then maps each row to its response
PreloadEntries(p) ==
  /\ pc[p] = "preload"
  /\ LET rows == reading[p].transactions IN
     FinishRead(p, "", "",
       [Transactions |->
          [i \in 1..Len(rows) |->
             [ID |-> rows[i].id,
              IdempotencyKey |-> rows[i].idempotency_key,
              TransactionType |-> rows[i].transaction_type,
              Amount |-> rows[i].amount,
              Currency |-> rows[i].currency,
              Entries |-> {e \in ledger_entries : e.transaction_id = rows[i].id}]]])

Reconcile(p) ==
  /\ pc[p] = "idle"
  /\ BeginRead(p, [op |-> "Reconcile", source |-> EmptyID, dest |-> EmptyID], "reconcile")

\* GetAllAccountsForReconciliation: one statement joins accounts with their
\* entries; Reconcile then folds the rows into all_consistent
GetAllAccountsForReconciliation(p) ==
  /\ pc[p] = "reconcile"
  /\ LET derived(a) ==
           Int64(SumAmounts({e \in ledger_entries :
                     e.account_id = a /\ e.entry_type = EntryTypeCredit})
                 - SumAmounts({e \in ledger_entries :
                     e.account_id = a /\ e.entry_type = EntryTypeDebit}))
         results == {[AccountID |-> a,
                      AccountType |-> accounts[a].account_type,
                      CachedBalance |-> accounts[a].balance,
                      DerivedBalance |-> derived(a),
                      IsConsistent |-> (accounts[a].balance = derived(a))] :
                     a \in DOMAIN accounts}
     IN FinishRead(p, "", "",
          [Accounts |-> results,
           AllConsistent |-> (\A r \in results : r.IsConsistent)])

ReadFailureMessage(at) ==
  CASE at \in {"get_account", "snap_account"} -> "failed to fetch account"
    [] at = "sum_credits" -> "failed to calculate credit sum"
    [] at = "sum_debits" -> "failed to calculate debit sum"
    [] at = "snap_derived" -> "failed to calculate derived balance"
    [] at \in {"find_txns", "preload"} -> "failed to fetch transactions"
    [] at = "reconcile" -> "failed to run reconciliation"

\* a statement of a read operation fails: the operation returns a DatabaseError
ReadFailure(p) ==
  /\ pc[p] \in ReadInFlight
  /\ faults < MaxFaults
  /\ faults' = faults + 1
  /\ pc' = [pc EXCEPT ![p] = "done"]
  /\ result' = [result EXCEPT ![p] =
                  [err |-> "DatabaseError", cause |-> ReadFailureMessage(pc[p]), txn |-> 0]]
  /\ reading' = [reading EXCEPT ![p] = NoReading]
  /\ UNCHANGED <<infra, workload, response, accounts, transactions, ledger_entries, lock, nextID,
                 call, cmd, idx, accts, locals, txw>>

\* ------------------------------------------------- direct SQL on ledger_entries
\* no trigger on the table
NoTrigger(op) == FALSE

\* trg_ledger_entries_immutable: BEFORE UPDATE OR DELETE, FOR EACH ROW, the
\* trigger function raises, which aborts the statement
prevent_ledger_entry_mutation(op) == op \in {"UPDATE", "DELETE"}

\* a session issues UPDATE ledger_entries SET amount = amount + 1 WHERE id = e
\* or DELETE FROM ledger_entries WHERE id = e
MutateLedgerEntry(p, op, e) ==
  /\ pc[p] = "idle"
  /\ e \in ledger_entries
  /\ pc' = [pc EXCEPT ![p] = "done"]
  /\ call' = [call EXCEPT ![p] = [op |-> op, source |-> EmptyID, dest |-> EmptyID]]
  /\ IF prevent_ledger_entry_mutation(op)
     THEN /\ ledger_entries' = ledger_entries
          /\ result' = [result EXCEPT ![p] =
                          [err |-> "SQLError", cause |-> "ledger_entries are immutable", txn |-> 0]]
     ELSE /\ ledger_entries' =
               IF op = "DELETE" THEN ledger_entries \ {e}
               ELSE (ledger_entries \ {e}) \cup {[e EXCEPT !.amount = Int64(e.amount + 1)]}
          /\ result' = [result EXCEPT ![p] = NoResult]
  /\ UNCHANGED <<infra, workload, reading, response, accounts, transactions, lock, nextID, faults,
                 cmd, idx, accts, locals, txw>>

Next ==
  \/ \E p \in Procs, cur \in workload.currencies : CreateAccount(p, [Currency |-> cur])
  \/ \E p \in Procs : \E r \in workload.client[p] :
        r.op = "Deposit" /\ Deposit(p, r.dest, r.body)
  \/ \E p \in Procs : \E r \in workload.client[p] :
        r.op = "Withdraw" /\ Withdraw(p, r.source, r.body)
  \/ \E p \in Procs : \E r \in workload.client[p] :
        r.op = "Transfer" /\ Transfer(p, r.source, r.dest, r.body)
  \/ \E p \in Procs : LockAccount(p)
  \/ \E p \in Procs : Validate(p)
  \/ \E p \in Procs : CreateTransaction(p)
  \/ \E p \in Procs : CreateDebitEntry(p)
  \/ \E p \in Procs : CreateCreditEntry(p)
  \/ \E p \in Procs : UpdateSource(p)
  \/ \E p \in Procs : UpdateDest(p)
  \/ \E p \in Procs : Commit(p)
  \/ \E p \in Procs : StorageFailure(p)
  \/ \E p \in Procs : \E r \in workload.reads[p] :
        r.op = "GetBalance" /\ GetBalance(p, r.account)
  \/ \E p \in Procs : \E r \in workload.reads[p] :
        r.op = "GetBalanceSnapshot" /\ GetBalanceSnapshot(p, r.account)
  \/ \E p \in Procs : \E r \in workload.reads[p] :
        r.op = "GetTransactions" /\ GetTransactions(p, r.account, r.limit, r.offset)
  \/ \E p \in Procs : \E r \in workload.reads[p] :
        r.op = "getTransactionsHandler"
          /\ getTransactionsHandler(p, r.account, r.limitQuery, r.offsetQuery)
  \/ \E p \in Procs : \E r \in workload.reads[p] :
        r.op = "Reconcile" /\ Reconcile(p)
  \/ \E p \in Procs : GetAccountByID(p)
  \/ \E p \in Procs : SumCredits(p)
  \/ \E p \in Procs : SumDebits(p)
  \/ \E p \in Procs : SnapshotAccount(p)
  \/ \E p \in Procs : SnapshotDerived(p)
  \/ \E p \in Procs : FindTransactions(p)
  \/ \E p \in Procs : PreloadEntries(p)
  \/ \E p \in Procs : GetAllAccountsForReconciliation(p)
  \/ \E p \in Procs : ReadFailure(p)
  \/ \E p \in Procs, op \in {"UPDATE", "DELETE"} : \E e \in ledger_entries :
        MutateLedgerEntry(p, op, e)
  \/ \E p \in Procs : Return(p)

Spec == Init /\ [][Next]_vars

\* the ledger under deposits large enough to leave the int64 range
OverflowInit ==
  workload = WorkloadOverflow /\ LedgerEmpty /\ BreakerIdle /\ RetryIdle /\ MigrationsIdle
OverflowNext ==
  \/ \E p \in Procs, cur \in workload.currencies : CreateAccount(p, [Currency |-> cur])
  \/ \E p \in Procs : \E r \in workload.client[p] : Deposit(p, r.dest, r.body)
  \/ \E p \in Procs : LockAccount(p)
  \/ \E p \in Procs : Validate(p)
  \/ \E p \in Procs : CreateTransaction(p)
  \/ \E p \in Procs : CreateDebitEntry(p)
  \/ \E p \in Procs : CreateCreditEntry(p)
  \/ \E p \in Procs : UpdateSource(p)
  \/ \E p \in Procs : UpdateDest(p)
  \/ \E p \in Procs : Commit(p)
  \/ \E p \in Procs : Return(p)
SpecOverflow == OverflowInit /\ [][OverflowNext]_vars

\* ------------------------------------------------------------ circuit breaker
\* One circuitBreaker shared by the goroutines of Procs; every section that
\* runs under cb.mutex is one step, fn runs between two of them.
Closed == "Closed"
Open == "Open"
HalfOpen == "HalfOpen"
ErrCircuitOpen == "circuit breaker is open"
\* what fn returns: nil ("") or an error
FnResults == {"", "fn failed"}
BreakerConfigs ==
  [FailureThreshold : 0..MaxThreshold, RecoveryTimeout : 1..MaxTimeout,
   SuccessThreshold : 1..MaxThreshold]

\* NewCircuitBreaker(config); the ledger is not running
BreakerInit ==
  /\ cb \in {[state |-> Closed, failures |-> 0, successes |-> 0, nextAttempt |-> 0,
              config |-> config] : config \in BreakerConfigs}
  /\ now = 0
  /\ caller = [p \in Procs |-> NoCaller]
  /\ workload = WorkloadSystem /\ LedgerEmpty /\ RetryIdle /\ MigrationsIdle

\* the admission that lets a call through once the breaker has opened
shouldAllowRequestNoWait(b, t) ==
  IF b.state = Open THEN [b EXCEPT !.state = HalfOpen, !.successes = 0] ELSE b

\* the breaker after shouldAllowRequest at time t; the request is allowed when
\* its state is not Open
shouldAllowRequest(b, t) ==
  IF b.state = Open /\ t > b.nextAttempt
  THEN [b EXCEPT !.state = HalfOpen, !.successes = 0]
  ELSE b

\* recordFailure opening only above the threshold
recordFailureAboveThreshold(b, t) ==
  LET c == [b EXCEPT !.failures = @ + 1] IN
  IF c.state = Closed
  THEN IF c.failures > c.config.FailureThreshold
       THEN [c EXCEPT !.state = Open, !.nextAttempt = t + c.config.RecoveryTimeout]
       ELSE c
  ELSE IF c.state = HalfOpen
  THEN [c EXCEPT !.state = Open, !.nextAttempt = t + c.config.RecoveryTimeout]
  ELSE c

recordFailure(b, t) ==
  LET c == [b EXCEPT !.failures = @ + 1] IN
  IF c.state = Closed
  THEN IF c.failures >= c.config.FailureThreshold
       THEN [c EXCEPT !.state = Open, !.nextAttempt = t + c.config.RecoveryTimeout]
       ELSE c
  ELSE IF c.state = HalfOpen
  THEN [c EXCEPT !.state = Open, !.nextAttempt = t + c.config.RecoveryTimeout]
  ELSE c

\* recordSuccess counting successes in every state
recordSuccessInAnyState(b) ==
  LET c == [b EXCEPT !.failures = 0, !.successes = @ + 1] IN
  IF c.successes >= c.config.SuccessThreshold
  THEN [c EXCEPT !.state = Closed, !.successes = 0]
  ELSE c

recordSuccess(b) ==
  LET c == [b EXCEPT !.failures = 0] IN
  IF c.state = HalfOpen
  THEN LET d == [c EXCEPT !.successes = @ + 1] IN
       IF d.successes >= d.config.SuccessThreshold
       THEN [d EXCEPT !.state = Closed, !.successes = 0]
       ELSE d
  ELSE c

\* Call, first critical section: shouldAllowRequest; a refused call returns
\* ErrCircuitOpen at once
Call(p) ==
  /\ caller[p].pc = "idle"
  /\ cb' = shouldAllowRequest(cb, now)
  /\ caller' = [caller EXCEPT ![p] =
        IF cb'.state # Open
        THEN [pc |-> "fn", state |-> cb.state, err |-> "", invoked |-> 0, ret |-> ""]
        ELSE [pc |-> "done", state |-> cb.state, err |-> "", invoked |-> 0,
              ret |-> ErrCircuitOpen]]
  /\ UNCHANGED <<ledger, now, retry, mig>>

\* err := fn(), outside the lock
RunFn(p, e) ==
  /\ caller[p].pc = "fn"
  /\ caller' = [caller EXCEPT ![p].pc = "record", ![p].err = e, ![p].invoked = @ + 1]
  /\ UNCHANGED <<ledger, cb, now, retry, mig>>

\* Call, second critical section: recordFailure or recordSuccess; return err
Record(p) ==
  /\ caller[p].pc = "record"
  /\ cb' = IF caller[p].err # "" THEN recordFailure(cb, now) ELSE recordSuccess(cb)
  /\ caller' = [caller EXCEPT ![p].pc = "done", ![p].ret = caller[p].err]
  /\ UNCHANGED <<ledger, now, retry, mig>>

\* the goroutine takes the result and is free for its next Call
CallReturns(p) ==
  /\ caller[p].pc = "done"
  /\ caller' = [caller EXCEPT ![p] = NoCaller]
  /\ UNCHANGED <<ledger, cb, now, retry, mig>>

Reset ==
  /\ cb' = [cb EXCEPT !.state = Closed, !.failures = 0, !.successes = 0]
  /\ UNCHANGED <<ledger, now, caller, retry, mig>>

\* time passes
Tick ==
  /\ now < MaxTime
  /\ now' = now + 1
  /\ UNCHANGED <<ledger, cb, caller, retry, mig>>

BreakerNext ==
  \/ \E p \in Procs : Call(p)
  \/ \E p \in Procs, e \in FnResults : RunFn(p, e)
  \/ \E p \in Procs : Record(p)
  \/ \E p \in Procs : CallReturns(p)
  \/ Reset
  \/ Tick
SpecBreaker == BreakerInit /\ [][BreakerNext]_vars


\* ------------------------------------------------------------ retry policies
\* One Execute of a RetryPolicy.  An error is its message, a sequence of words;
\* nil is the empty message.
nilError == <<>>
ExponentialBackoff == "ExponentialBackoff"
FixedDelay == "FixedDelay"
RetryPolicies == {ExponentialBackoff, FixedDelay}
RetryConfigs ==
  [MaxAttempts : 0..MaxRetryAttempts, BaseDelay : 1..MaxBaseDelay,
   MaxDelay : 1..(MaxBaseDelay + 1), Multiplier : 1..MaxBaseDelay]
\* the errors fn returns
FnErrors ==
  {<<"Connection", "refused">>, <<"dial", "tcp", "i/o", "Timeout">>,
   <<"refused", "connection">>, <<"record", "not", "found">>}
retryablePatterns ==
  {<<"connection", "refused">>, <<"connection", "reset">>, <<"timeout">>,
   <<"temporary", "failure">>, <<"service", "unavailable">>,
   <<"too", "many", "requests">>}

\* strings.ToLower, word by word
ToLower(msg) ==
  [i \in 1..Len(msg) |->
     CASE msg[i] = "Connection" -> "connection"
       [] msg[i] = "Timeout" -> "timeout"
       [] OTHER -> msg[i]]
\* strings.Contains: pattern occurs in msg as a contiguous run
Contains(msg, pattern) ==
  \E i \in 1..(Len(msg) - Len(pattern) + 1) :
    SubSeq(msg, i, i + Len(pattern) - 1) = pattern

\* the lower-cased message contains one of the patterns
MatchesPattern(err) ==
  \E pattern \in retryablePatterns : Contains(ToLower(err), pattern)

\* the classification that retries after every error
isRetryableAnyError(err) == err # nilError

isRetryable(err) == err # nilError /\ MatchesPattern(err)

RECURSIVE Pow(_, _)
Pow(b, n) == IF n = 0 THEN 1 ELSE b * Pow(b, n - 1)
calculateDelay(config, attempt) ==
  LET delay == config.BaseDelay * Pow(config.Multiplier, attempt - 1) IN
  IF delay > config.MaxDelay THEN config.MaxDelay ELSE delay
\* what the policy sleeps between attempts
SleepDelay(r) ==
  IF r.policy = ExponentialBackoff
  THEN calculateDelay(r.config, r.attempt)
  ELSE r.config.BaseDelay

\* the loop without its test for the last attempt
LastAttemptNever(r) == FALSE

\* attempt == config.MaxAttempts
LastAttempt(r) == r.attempt = r.config.MaxAttempts

NotReturned == [kind |-> "", err |-> nilError, MaxAttempts |-> 0]
MaxRetriesExceededError(lastErr, maxAttempts) ==
  [kind |-> "MaxRetriesExceededError", err |-> lastErr, MaxAttempts |-> maxAttempts]

\* a policy built from a configuration, Execute about to be called
RetryInit ==
  /\ retry \in {[pc |-> "Execute", policy |-> policy, config |-> config, attempt |-> 0,
                 err |-> nilError, lastErr |-> nilError, calls |-> 0, delay |-> 0,
                 result |-> NotReturned] : policy \in RetryPolicies, config \in RetryConfigs}
  /\ workload = WorkloadSystem /\ LedgerEmpty /\ BreakerIdle /\ MigrationsIdle

\* var lastErr error; attempt := 1
Execute ==
  /\ retry.pc = "Execute"
  /\ retry' = [retry EXCEPT !.pc = "for", !.attempt = 1, !.lastErr = nilError]
  /\ UNCHANGED <<ledger, cb, now, caller, mig>>

\* attempt <= config.MaxAttempts
ForCondition ==
  /\ retry.pc = "for"
  /\ retry' = [retry EXCEPT !.pc = IF retry.attempt <= retry.config.MaxAttempts
                                   THEN "fn" ELSE "exceeded"]
  /\ UNCHANGED <<ledger, cb, now, caller, mig>>

\* err := fn()
InvokeFn(e) ==
  /\ retry.pc = "fn"
  /\ retry' = [retry EXCEPT !.pc = "check", !.err = e, !.calls = @ + 1]
  /\ UNCHANGED <<ledger, cb, now, caller, mig>>

\* the body of the loop after fn has returned
CheckResult ==
  /\ retry.pc = "check"
  /\ retry' =
       IF retry.err = nilError
       THEN [retry EXCEPT !.pc = "returned",
                          !.result = [kind |-> "nil", err |-> nilError, MaxAttempts |-> 0]]
       ELSE LET r == [retry EXCEPT !.lastErr = retry.err] IN
            IF LastAttempt(r)
            THEN [r EXCEPT !.pc = "exceeded"]
            ELSE IF ~isRetryable(r.err)
            THEN [r EXCEPT !.pc = "returned",
                           !.result = [kind |-> "error", err |-> r.err, MaxAttempts |-> 0]]
            ELSE [r EXCEPT !.pc = "sleep", !.delay = SleepDelay(r)]
  /\ UNCHANGED <<ledger, cb, now, caller, mig>>

\* time.Sleep returns; attempt++
Sleep ==
  /\ retry.pc = "sleep"
  /\ retry' = [retry EXCEPT !.pc = "for", !.attempt = @ + 1]
  /\ UNCHANGED <<ledger, cb, now, caller, mig>>

\* return &MaxRetriesExceededError{LastError: lastErr, MaxAttempts: ...}
ReturnExceeded ==
  /\ retry.pc = "exceeded"
  /\ retry' = [retry EXCEPT !.pc = "returned",
                 !.result = MaxRetriesExceededError(retry.lastErr, retry.config.MaxAttempts)]
  /\ UNCHANGED <<ledger, cb, now, caller, mig>>

RetryNext ==
  \/ Execute
  \/ ForCondition
  \/ \E e \in FnErrors \cup {nilError} : InvokeFn(e)
  \/ CheckResult
  \/ Sleep
  \/ ReturnExceeded
SpecRetry == RetryInit /\ [][RetryNext]_vars
\* fn and time.Sleep return and the goroutine in Execute keeps being scheduled
SpecRetryFair == SpecRetry /\ WF_vars(RetryNext)


\* ---------------------------------------------------------------- migrations
\* One call Up(ctx, db, cfg) and the goroutine it starts.  An error is a
\* message and the error it wraps; nil has neither.
NoErr == [msg |-> "", cause |-> ""]
ContextCanceled == "context canceled"
ContextDeadlineExceeded == "context deadline exceeded"
ErrNoChange == "no change"
\* errCh := make(chan error, 1)
ErrChCapacity == 1

\* the arguments of Up and the behaviour of the two factories and of m.Up,
\* which returns nil, migrate.ErrNoChange or another error
MigrationsInit ==
  /\ mig \in
       {[pc |-> "Up", db |-> handle, ctx |-> c.ctx, ctxErr |-> c.err, atCall |-> c.err,
         driverFails |-> df, migratorFails |-> mf, upResult |-> u,
         drivers |-> 0, migrators |-> 0, created |-> FALSE, once |-> FALSE,
         closeCalls |-> 0, errCh |-> <<>>, gpc |-> "idle", ret |-> NoErr] :
          handle \in {"nil", "db"},
          c \in {[ctx |-> "nil", err |-> ""]} \cup
                [ctx : {"ctx"}, err : {"", ContextCanceled, ContextDeadlineExceeded}],
          df \in BOOLEAN, mf \in BOOLEAN,
          u \in {"", ErrNoChange, "Dirty database version"}}
  /\ workload = WorkloadSystem /\ LedgerEmpty /\ BreakerIdle /\ RetryIdle

\* a context whose Err is never looked at
ErrNeverSet(m) == ""

\* ctx.Err(); a nil ctx has been replaced by context.Background()
Err(m) == IF m.ctx = "nil" THEN "" ELSE m.ctxErr

\* a channel without buffer: a send needs the receiver to be waiting
SendReadyUnbuffered(m) == m.pc = "select"

\* the send on errCh can proceed
SendReady(m) == Len(m.errCh) < ErrChCapacity

\* closeMigrator(): closeOnce.Do(m.Close)
closeMigrator(m) ==
  IF m.once THEN m ELSE [m EXCEPT !.once = TRUE, !.closeCalls = @ + 1]

\* the checks on db and ctx at the head of Up
PreCheck ==
  /\ mig.pc = "Up"
  /\ mig' = IF mig.db = "nil"
            THEN [mig EXCEPT !.pc = "returned",
                             !.ret = [msg |-> "migrations: db is nil", cause |-> ""]]
            ELSE IF Err(mig) # ""
            THEN [mig EXCEPT !.pc = "returned", !.ret = [msg |-> Err(mig), cause |-> ""]]
            ELSE [mig EXCEPT !.pc = "driver"]
  /\ UNCHANGED <<ledger, cb, now, caller, retry>>

\* driver, err := driverFactory(db, cfg)
CreateDriver ==
  /\ mig.pc = "driver"
  /\ mig' = IF mig.driverFails
            THEN [mig EXCEPT !.pc = "returned", !.drivers = @ + 1,
                             !.ret = [msg |-> "migrations: postgres driver",
                                      cause |-> "driver error"]]
            ELSE [mig EXCEPT !.pc = "migrator", !.drivers = @ + 1]
  /\ UNCHANGED <<ledger, cb, now, caller, retry>>

\* m, err := migratorFactory(sourceURL, driver); defer closeMigrator()
CreateMigrator ==
  /\ mig.pc = "migrator"
  /\ mig' = IF mig.migratorFails
            THEN [mig EXCEPT !.pc = "returned", !.migrators = @ + 1,
                             !.ret = [msg |-> "migrations: init", cause |-> "init error"]]
            ELSE [mig EXCEPT !.pc = "go", !.migrators = @ + 1, !.created = TRUE]
  /\ UNCHANGED <<ledger, cb, now, caller, retry>>

\* errCh := make(chan error, 1); go func() { errCh <- m.Up() }()
StartGoroutine ==
  /\ mig.pc = "go"
  /\ mig' = [mig EXCEPT !.pc = "select", !.errCh = <<>>, !.gpc = "running"]
  /\ UNCHANGED <<ledger, cb, now, caller, retry>>

\* the goroutine: m.Up() returns
MigratorUp ==
  /\ mig.gpc = "running"
  /\ mig' = [mig EXCEPT !.gpc = "send"]
  /\ UNCHANGED <<ledger, cb, now, caller, retry>>

\* the goroutine: errCh <- result
Deliver ==
  /\ mig.gpc = "send"
  /\ SendReady(mig)
  /\ mig' = [mig EXCEPT !.gpc = "done", !.errCh = Append(@, mig.upResult)]
  /\ UNCHANGED <<ledger, cb, now, caller, retry>>

\* select, case <-ctx.Done(): closeMigrator()
SelectCtxDone ==
  /\ mig.pc = "select"
  /\ mig.ctx # "nil" /\ mig.ctxErr # ""
  /\ mig' = [closeMigrator(mig) EXCEPT !.pc = "returnCtx"]
  /\ UNCHANGED <<ledger, cb, now, caller, retry>>

\* return ctx.Err()
ReturnCtxErr ==
  /\ mig.pc = "returnCtx"
  /\ mig' = [mig EXCEPT !.pc = "defer", !.ret = [msg |-> Err(mig), cause |-> ""]]
  /\ UNCHANGED <<ledger, cb, now, caller, retry>>

\* select, case err := <-errCh, and the returns that follow it
SelectErr ==
  /\ mig.pc = "select"
  /\ mig.errCh # <<>>
  /\ LET err == Head(mig.errCh) IN
     mig' = [mig EXCEPT !.pc = "defer", !.errCh = Tail(@),
                        !.ret = IF err = "" \/ err = ErrNoChange
                                THEN NoErr
                                ELSE [msg |-> "migrations: up", cause |-> err]]
  /\ UNCHANGED <<ledger, cb, now, caller, retry>>

\* the deferred closeMigrator() runs and Up returns
Deferred ==
  /\ mig.pc = "defer"
  /\ mig' = [closeMigrator(mig) EXCEPT !.pc = "returned"]
  /\ UNCHANGED <<ledger, cb, now, caller, retry>>

\* the context is cancelled or its deadline passes
CtxDone(e) ==
  /\ mig.ctx # "nil" /\ mig.ctxErr = ""
  /\ mig.pc # "returned"
  /\ mig' = [mig EXCEPT !.ctxErr = e]
  /\ UNCHANGED <<ledger, cb, now, caller, retry>>

MigrationsNext ==
  \/ PreCheck
  \/ CreateDriver
  \/ CreateMigrator
  \/ StartGoroutine
  \/ MigratorUp
  \/ Deliver
  \/ SelectCtxDone
  \/ ReturnCtxErr
  \/ SelectErr
  \/ Deferred
  \/ \E e \in {ContextCanceled, ContextDeadlineExceeded} : CtxDone(e)
SpecMigrations == MigrationsInit /\ [][MigrationsNext]_vars
\* a goroutine that can send is scheduled
SpecMigrationsFair == SpecMigrations /\ WF_vars(Deliver)


\* ------------------------------------------------- reconciliation quantities
EntriesOn(a, type) == {e \in ledger_entries : e.account_id = a /\ e.entry_type = type}
\* derived balance: SUM(credit amounts) - SUM(debit amounts) over the entries of a
DerivedBalance(a) ==
  SumAmounts(EntriesOn(a, EntryTypeCredit)) - SumAmounts(EntriesOn(a, EntryTypeDebit))
TotalDebits == SumAmounts({e \in ledger_entries : e.entry_type = EntryTypeDebit})
TotalCredits == SumAmounts({e \in ledger_entries : e.entry_type = EntryTypeCredit})
EntriesOf(t) == {e \in ledger_entries : e.transaction_id = t.id}

\* the worker p completes its call in this step
Completes(p) == pc[p] \in InFlight /\ pc'[p] = "done"
\* the worker p takes a step of its call
Acts(p) == pc'[p] # pc[p] \/ idx'[p] # idx[p]

\* --------------------------------------------------------------------- C1
\* C1: in every committed state every account's cached balance equals the sum
\* of its CREDIT entries minus the sum of its DEBIT entries.
C1_CachedEqualsDerived ==
  \A a \in DOMAIN accounts : accounts[a].balance = DerivedBalance(a)

\* --------------------------------------------------------------------- C2
\* C2: at every commit boundary the DEBIT amounts of the whole ledger sum to
\* the same total as the CREDIT amounts.
C2_GlobalZeroSum == TotalDebits = TotalCredits

\* two transactions are committed, one of them moved money between two users
C2_Witness ==
  /\ Cardinality(transactions) >= 2
  /\ \E t \in transactions : t.transaction_type = TransactionTypeTransfer
  /\ TotalDebits > 0

\* --------------------------------------------------------------------- C3
\* C3: every committed transaction has exactly two entries, one DEBIT and one
\* CREDIT, both of the transaction's amount, on two distinct accounts.
C3_ZeroSumPerTransaction ==
  \A t \in transactions :
    /\ Cardinality(EntriesOf(t)) = 2
    /\ \E d \in EntriesOf(t), c \in EntriesOf(t) :
         /\ d.entry_type = EntryTypeDebit
         /\ c.entry_type = EntryTypeCredit
         /\ d.amount = t.amount
         /\ c.amount = t.amount
         /\ d.account_id # c.account_id

\* --------------------------------------------------------------------- C4
\* C4: a USER account's committed balance is never negative, whatever debits
\* race for it.
C4_UserSolvency ==
  \A a \in DOMAIN accounts :
    accounts[a].account_type = AccountTypeUser => accounts[a].balance >= 0

\* a debit emptied a user account and a second debit of it was refused
C4_Witness ==
  \E p \in Procs :
    /\ pc[p] = "done"
    /\ result[p].err = "ErrInsufficientFunds"
    /\ cmd[p].SourceAccountID \in DOMAIN accounts
    /\ accounts[cmd[p].SourceAccountID].balance = 0
    /\ EntriesOn(cmd[p].SourceAccountID, EntryTypeDebit) # {}

\* --------------------------------------------------------------------- C5
\* the committed transaction that an identical earlier request created
MatchingCommitted(c) ==
  {t \in transactions :
     /\ c.IdempotencyKey # ""
     /\ t.idempotency_key = c.IdempotencyKey
     /\ t.amount = c.Amount
     /\ t.transaction_type = c.TransactionType
     /\ \E d \in EntriesOf(t) : d.entry_type = EntryTypeDebit /\ d.account_id = c.SourceAccountID
     /\ \E e \in EntriesOf(t) : e.entry_type = EntryTypeCredit /\ e.account_id = c.DestAccountID}

C5_Step ==
  /\ \A p \in Procs :
       (Completes(p) /\ faults' = faults /\ MatchingCommitted(cmd[p]) # {}) =>
         /\ result'[p].err = ""
         /\ result'[p].txn \in {t.id : t \in MatchingCommitted(cmd[p])}
         /\ UNCHANGED db
  /\ transactions \subseteq transactions'
  /\ \A t1 \in transactions', t2 \in transactions' :
       (t1.idempotency_key = t2.idempotency_key /\ t1.idempotency_key # "") => t1 = t2
  /\ \A t \in transactions' :
       Cardinality({e \in ledger_entries' : e.transaction_id = t.id}) = 2

\* C5: a mutation repeated with the same non-empty key and the same arguments
\* succeeds every time with the id of the one transaction committed for that
\* key (unless the storage itself fails), and that transaction, its pair of
\* entries and its balance delta exist once.
C5_Idempotence == [][C5_Step]_vars

\* both clients sent the same request and both got the same transaction back
C5_Witness ==
  /\ \A p \in Procs : pc[p] = "done" /\ result[p].err = ""
  /\ result[1].txn = result[2].txn
  /\ result[1].txn # 0
  /\ cmd[1] = cmd[2]
  /\ cmd[1].IdempotencyKey # ""

\* --------------------------------------------------------------------- C6
\* a committed transaction with the command's key and another (amount, type)
ConflictingCommitted(c) ==
  {t \in transactions :
     /\ c.IdempotencyKey # ""
     /\ t.idempotency_key = c.IdempotencyKey
     /\ (t.amount # c.Amount \/ t.transaction_type # c.TransactionType)}

C6_Step ==
  \A p \in Procs :
    (/\ Completes(p)
     /\ faults' = faults
     /\ ConflictingCommitted(cmd[p]) # {}
     /\ {cmd[p].SourceAccountID, cmd[p].DestAccountID} \subseteq DOMAIN accounts) =>
      /\ result'[p].err = "ErrIdempotencyConflict"
      /\ UNCHANGED db

\* C6: of two mutations with the same non-empty key and different (amount,
\* type), sequential or concurrent, the one that does not commit fails with
\* IdempotencyConflict and changes nothing.
C6_IdempotencyConflict == [][C6_Step]_vars

\* ------------------------------------------------------------ fair scheduling
\* every in-flight call keeps being served: the storage answers each statement,
\* and a transaction waiting for a row lock or for the unique index is granted
\* it once it is free (lock waiters are queued)
EngineStep(p) ==
  \/ LockAccount(p) \/ Validate(p) \/ CreateTransaction(p) \/ CreateDebitEntry(p)
  \/ CreateCreditEntry(p) \/ UpdateSource(p) \/ UpdateDest(p) \/ Commit(p)
FairSpec == Init /\ [][Next]_vars /\ \A p \in Procs : SF_vars(EngineStep(p))

\* --------------------------------------------------------------------- C7
\* p waits for a row lock that q holds
WaitsFor(p, q) ==
  /\ p # q
  /\ pc[p] = "lock"
  /\ lock[SortedAccountIDs(cmd[p])[idx[p]]] = q
HoldsLock(p) == \E i \in AllIDs : lock[i] = p
CircularWait ==
  \E p \in Procs, q \in Procs :
    WaitsFor(p, q) /\ WaitsFor(q, p) /\ HoldsLock(p) /\ HoldsLock(q)

\* C7: concurrent calls on the same pair of accounts, in either direction,
\* never hold one lock each while waiting for the other's, and every call in
\* flight finishes.
C7_NoDeadlock ==
  /\ [] ~CircularWait
  /\ \A p \in Procs : (pc[p] \in InFlight) ~> (pc[p] = "done")

\* transfers A->B and B->A are in flight, one waiting for the lock of the
\* lower id that the other holds
C7_Witness ==
  \E p \in Procs, q \in Procs :
    /\ WaitsFor(p, q)
    /\ cmd[p].SourceAccountID = cmd[q].DestAccountID
    /\ cmd[p].DestAccountID = cmd[q].SourceAccountID
    /\ cmd[p].SourceAccountID # cmd[p].DestAccountID
    /\ idx[p] = 1

\* --------------------------------------------------------------------- C8
DerivedOver(entries, a) ==
  SumAmounts({e \in entries : e.account_id = a /\ e.entry_type = EntryTypeCredit})
  - SumAmounts({e \in entries : e.account_id = a /\ e.entry_type = EntryTypeDebit})

\* p commits a new transaction between two different accounts in this step
CommitsNew(p) ==
  /\ pc[p] = "commit"
  /\ pc'[p] = "done"
  /\ result'[p].err = ""
  /\ ~locals[p].replay

C8_Step ==
  \A p \in Procs :
    LET s == cmd[p].SourceAccountID
        d == cmd[p].DestAccountID
        m == cmd[p].Amount
    IN
    /\ (CommitsNew(p) /\ s # d) =>
         /\ accounts'[s].balance = accounts[s].balance - m
         /\ accounts'[d].balance = accounts[d].balance + m
         /\ \A a \in DOMAIN accounts \ {s, d} : accounts'[a] = accounts[a]
         /\ DerivedOver(ledger_entries', s) = DerivedOver(ledger_entries, s) - m
         /\ DerivedOver(ledger_entries', d) = DerivedOver(ledger_entries, d) + m
    /\ (Completes(p) /\ result'[p].err = "ErrInsufficientFunds") =>
         accounts[s].balance < m

\* C8: no update is lost: every commit applies its amount to the balances as
\* they are committed at that moment (so N concurrent mutations of one account
\* add up), cached and derived balances move together, and a call is refused
\* for lack of funds only when the committed funds do not suffice.
C8_NoLostUpdate == [][C8_Step]_vars

\* two different transactions that touch the same user account have committed,
\* the second one while the first caller had not yet taken its response
C8_Witness ==
  /\ \A p \in Procs : pc[p] = "done" /\ result[p].err = "" /\ result[p].txn # 0
  /\ result[1].txn # result[2].txn
  /\ \E a \in UserIDs :
       /\ \A p \in Procs : a \in {cmd[p].SourceAccountID, cmd[p].DestAccountID}
       /\ a \in DOMAIN accounts
       /\ accounts[a].version >= 2

\* --------------------------------------------------------------------- C9
TypedErrors ==
  {"ErrAccountNotFound", "ErrIdempotencyConflict", "ErrCurrencyMismatch",
   "ErrInsufficientFunds", "DatabaseError"}

\* the whole effect of one ExecuteDoubleEntry becomes visible in this step
FullEffect(p) ==
  LET s == cmd[p].SourceAccountID
      d == cmd[p].DestAccountID
      id == locals[p].txnID
      new == ledger_entries' \ ledger_entries
  IN
  /\ \E t \in transactions' : t.id = id /\ transactions' = transactions \cup {t}
  /\ Cardinality(new) = 2
  /\ \E e \in new : e.transaction_id = id /\ e.entry_type = EntryTypeDebit /\ e.account_id = s
  /\ \E e \in new : e.transaction_id = id /\ e.entry_type = EntryTypeCredit /\ e.account_id = d
  /\ accounts'[s].version # accounts[s].version
  /\ accounts'[d].version # accounts[d].version
  /\ accounts'[s].balance # accounts[s].balance
  /\ accounts'[d].balance # accounts[d].balance

C9_Step ==
  /\ \A p \in Procs :
       /\ (Acts(p) /\ pc[p] \in InFlight /\ ~CommitsNew(p)) => UNCHANGED db
       /\ (Completes(p) /\ result'[p].err # "") =>
            /\ \A i \in AllIDs : lock'[i] # p
            /\ (result'[p].err \in TypedErrors \/ pc[p] = "commit")
       /\ CommitsNew(p) => FullEffect(p)
  /\ \A t \in transactions' :
       /\ \E e \in ledger_entries' : e.transaction_id = t.id /\ e.entry_type = EntryTypeDebit
       /\ \E e \in ledger_entries' : e.transaction_id = t.id /\ e.entry_type = EntryTypeCredit

\* C9: ExecuteDoubleEntry is atomic: a call that fails at any step returns a
\* typed error, keeps no lock and leaves the committed accounts, transactions
\* and entries as they were; a call that commits publishes its transaction,
\* both entries and both account updates in one step, and nothing in between
\* is ever visible.
C9_Atomicity == [][C9_Step]_vars

\* a call failed at its last statement, after it had written the transaction,
\* both entries and the source account inside its storage transaction
C9_Witness ==
  \E p \in Procs :
    /\ pc[p] = "done"
    /\ result[p].err = "DatabaseError"
    /\ result[p].cause = "failed to update destination account"

\* -------------------------------------------------------------------- C10
\* a user-level operation that names the system account
TargetsSystemAccount(c) ==
  \/ c.op = "Deposit" /\ c.dest = SystemAccountID
  \/ c.op = "Withdraw" /\ c.source = SystemAccountID
  \/ c.op = "Transfer" /\ (c.source = SystemAccountID \/ c.dest = SystemAccountID)

\* C10: Deposit or Withdraw on the system account, and Transfer with the system
\* account as an endpoint, fail with SystemAccountForbidden before the engine
\* is called.
C10_SystemAccountGuard ==
  \A p \in Procs :
    TargetsSystemAccount(call[p]) =>
      /\ pc[p] = "done"
      /\ result[p].err = "SystemAccountForbidden"

\* -------------------------------------------------------------------- C11
\* p is about to run steps 3-5 with both rows locked, no committed transaction
\* under its key and matching currencies: the balance check decides the call
ReachesBalanceCheck(p) ==
  LET c == cmd[p] IN
  /\ pc[p] = "idem"
  /\ pc'[p] # "idem"
  /\ faults' = faults
  /\ (c.IdempotencyKey = "" \/ \A t \in transactions : t.idempotency_key # c.IdempotencyKey)
  /\ accts[p][c.SourceAccountID].currency = accts[p][c.DestAccountID].currency
  /\ (c.Currency = "" \/ c.Currency = accts[p][c.SourceAccountID].currency)

C11_Step ==
  \A p \in Procs :
    LET s == cmd[p].SourceAccountID
        m == cmd[p].Amount
        refused == pc'[p] = "done" /\ result'[p].err = "ErrInsufficientFunds"
    IN
    /\ ReachesBalanceCheck(p) =>
         /\ refused <=> (accounts[s].account_type = AccountTypeUser /\ accounts[s].balance < m)
         /\ ~refused => pc'[p] = "create_txn"
    /\ (Acts(p) /\ refused) =>
         /\ accounts[s].account_type = AccountTypeUser
         /\ accounts[s].balance < m
         /\ UNCHANGED db
    /\ (CommitsNew(p) /\ s # cmd[p].DestAccountID /\ accounts[s].balance = m) =>
         accounts'[s].balance = 0

\* C11 (amended): a call that reaches the balance check (both accounts locked,
\* no committed transaction under its key, currencies matching) is refused with
\* InsufficientFunds exactly when its source is a USER account whose balance is
\* below the amount; amount == balance passes and leaves the balance at zero; a
\* refusal changes no account, transaction or entry; a SYSTEM source is never
\* refused for lack of funds.
C11_SolvencyCheck == [][C11_Step]_vars

\* one call drained a user account to exactly zero and committed, and the other
\* call's debit of the same account was refused
C11_Witness ==
  \E p \in Procs, q \in Procs :
    /\ pc[p] = "done" /\ result[p].err = "" /\ result[p].txn # 0
    /\ pc[q] = "done" /\ result[q].err = "ErrInsufficientFunds"
    /\ cmd[p].SourceAccountID = cmd[q].SourceAccountID
    /\ cmd[p].SourceAccountID \in UserIDs
    /\ accounts[cmd[p].SourceAccountID].balance = 0
    /\ \E e \in ledger_entries :
         /\ e.transaction_id = result[p].txn
         /\ e.entry_type = EntryTypeDebit
         /\ e.balance_after = 0

\* C11 as stated: whenever a call with a USER source completes while the
\* source's balance is below the amount, it fails with InsufficientFunds.
C11_RefusedWheneverShort ==
  [][\A p \in Procs :
       (/\ Completes(p)
        /\ faults' = faults
        /\ {cmd[p].SourceAccountID, cmd[p].DestAccountID} \subseteq DOMAIN accounts
        /\ accounts[cmd[p].SourceAccountID].account_type = AccountTypeUser
        /\ accounts[cmd[p].SourceAccountID].balance < cmd[p].Amount) =>
         result'[p].err = "ErrInsufficientFunds"]_vars

\* -------------------------------------------------------------------- C12
C12_Step ==
  /\ \A a \in DOMAIN accounts :
       a \in DOMAIN accounts' /\ accounts'[a].version >= accounts[a].version
  /\ \A p \in Procs :
       IF CommitsNew(p)
       THEN \A a \in DOMAIN accounts :
              accounts'[a].version =
                IF a \in {cmd[p].SourceAccountID, cmd[p].DestAccountID}
                THEN accounts[a].version + 1
                ELSE accounts[a].version
       ELSE (Acts(p) /\ pc[p] \in InFlight) =>
              \A a \in DOMAIN accounts : accounts'[a].version = accounts[a].version

\* C12: an account's version never decreases; a successful mutation raises the
\* version of its source and of its destination by exactly 1 and no other; a
\* failed mutation and an idempotent replay leave every version unchanged.
C12_VersionMonotonic == [][C12_Step]_vars

\* -------------------------------------------------------------------- C13
C13_Step ==
  /\ ledger_entries \subseteq ledger_entries'
  /\ \A p \in Procs :
       (pc[p] = "idle" /\ pc'[p] = "done" /\ call'[p].op \in {"UPDATE", "DELETE"}) =>
         /\ result'[p].err # ""
         /\ ledger_entries' = ledger_entries

\* C13: an UPDATE or DELETE of a ledger_entries row fails at the storage
\* boundary, and no step removes or alters an entry: the set of entries only
\* grows and every entry keeps its transaction_id, account_id, entry_type,
\* amount and balance_after.
C13_Immutability == [][C13_Step]_vars

\* a DELETE of a committed entry was attempted and refused
C13_Witness ==
  \E p \in Procs :
    /\ pc[p] = "done"
    /\ call[p].op = "DELETE"
    /\ result[p].err # ""
    /\ Cardinality(ledger_entries) >= 2

\* -------------------------------------------------------------------- C14
\* C14: a balance read that completes next to a concurrent mutation returns a
\* cached and a derived balance taken from the same committed state, so it
\* reports the account consistent whenever the account is consistent; and a
\* transaction listing never shows a transaction without its two entries.
C14_ReadAtomicity ==
  \A p \in Procs :
    (pc[p] = "done" /\ result[p].err = "") =>
      /\ (/\ call[p].op \in {"GetBalance", "GetBalanceSnapshot"}
          /\ accounts[call[p].source].balance = DerivedBalance(call[p].source)) =>
           response[p].CachedBalance = response[p].DerivedBalance
      /\ call[p].op = "GetTransactions" =>
           \A i \in DOMAIN response[p].Transactions :
             LET t == response[p].Transactions[i] IN
             /\ Cardinality(t.Entries) = 2
             /\ \E e \in t.Entries : e.entry_type = EntryTypeDebit
             /\ \E e \in t.Entries : e.entry_type = EntryTypeCredit

\* -------------------------------------------------------------------- C15
\* the errors the service's own checks can answer the request c with
ValidationErrors(c) ==
  LET emptyID == \/ c.op = "Deposit" /\ c.dest = EmptyID
                 \/ c.op = "Withdraw" /\ c.source = EmptyID
                 \/ c.op = "Transfer" /\ (c.source = EmptyID \/ c.dest = EmptyID)
      self == c.op = "Transfer" /\ c.req # Nil /\ c.source = c.dest
      badAmount == IF c.req = Nil THEN FALSE ELSE c.req.Amount <= 0
  IN (IF c.req = Nil \/ emptyID THEN {"InvalidRequest"} ELSE {})
     \cup (IF self THEN {"SelfTransfer"} ELSE {})
     \cup (IF badAmount THEN {"InvalidAmount"} ELSE {})

C15_Step ==
  \A p \in Procs :
    (/\ pc[p] = "idle"
     /\ pc'[p] # "idle"
     /\ call'[p].op \in {"Deposit", "Withdraw", "Transfer"}
     /\ ValidationErrors(call'[p]) # {}) =>
      /\ pc'[p] = "done"
      /\ result'[p].err \in ValidationErrors(call'[p])
      /\ (call'[p].req = Nil \/ call'[p].op # "Transfer" \/ call'[p].source # call'[p].dest
          \/ EmptyID \in {call'[p].source, call'[p].dest})
         \/ result'[p].err = "SelfTransfer"
      /\ UNCHANGED <<accounts, transactions, ledger_entries, lock, cmd, txw, accts, nextID>>

\* C15: Deposit, Withdraw and Transfer answer a nil request or an empty account
\* id with an invalid-request error, an amount <= 0 with InvalidAmount and a
\* transfer onto its own source with SelfTransfer, without calling
\* ExecuteDoubleEntry, taking a lock or changing any state.
C15_PreStorageValidation == [][C15_Step]_vars

\* a self-transfer was refused while the other client's transfer was holding
\* its locks inside the engine
C15_Witness ==
  \E p \in Procs, q \in Procs :
    /\ pc[p] = "done"
    /\ call[p].op = "Transfer"
    /\ call[p].source = call[p].dest
    /\ result[p].err = "SelfTransfer"
    /\ pc[q] \in InFlight
    /\ \E i \in AllIDs : lock[i] = q

\* -------------------------------------------------------------------- C16
C16_Step ==
  \A p \in Procs :
    (Completes(p) /\ faults' = faults /\ cmd[p].IdempotencyKey = "") =>
      /\ result'[p].err \in {"", "ErrAccountNotFound", "ErrCurrencyMismatch",
                             "ErrInsufficientFunds"}
      /\ result'[p].err = "" =>
           /\ result'[p].txn \notin {t.id : t \in transactions}
           /\ \E t \in transactions' \ transactions : t.id = result'[p].txn
           /\ Cardinality({e \in ledger_entries' \ ledger_entries :
                             e.transaction_id = result'[p].txn}) = 2

\* C16: mutations issued with an empty idempotency key are neither deduplicated
\* nor refused for a key collision: each one that finds its accounts, matches
\* their currency and has the funds commits a transaction of its own with its
\* own pair of entries.
C16_EmptyKeyNotUnique == [][C16_Step]_vars

\* -------------------------------------------------------------------- C17
SystemAccounts == {a \in DOMAIN accounts : accounts[a].account_type = AccountTypeSystem}

C17_Step ==
  /\ DOMAIN accounts \subseteq DOMAIN accounts'
  /\ \A a \in DOMAIN accounts : accounts'[a].account_type = accounts[a].account_type
  /\ \A a \in DOMAIN accounts' \ DOMAIN accounts :
       /\ accounts'[a].account_type = AccountTypeUser
       /\ accounts'[a].balance = 0

\* C17: exactly one SYSTEM account exists in every reachable state; it is there
\* from initialization, with balance 0 and version 0; CreateAccount inserts
\* USER accounts with balance 0 only; no step deletes an account or changes an
\* account's type.
C17_OneSystemAccount ==
  /\ SystemAccounts = {SystemAccountID}
  /\ accounts[SystemAccountID].balance = 0
  /\ accounts[SystemAccountID].version = 0
  /\ [](SystemAccounts = {SystemAccountID})
  /\ [][C17_Step]_vars

\* three user accounts were created and money has moved out of the system
\* account
C17_Witness ==
  /\ Cardinality(DOMAIN accounts) = MaxAccounts + 1
  /\ accounts[SystemAccountID].balance < 0
  /\ accounts[SystemAccountID].version > 0

\* -------------------------------------------------------------------- C18
\* C18: Reconcile marks each account is_consistent == (cached_balance ==
\* derived_balance), returns ledger_balanced == (total_debits ==
\* total_credits), and returns all_consistent only if every account is
\* consistent and the ledger is balanced.
C18_ReconcileFlags ==
  \A p \in Procs :
    (pc[p] = "done" /\ call[p].op = "Reconcile" /\ result[p].err = "") =>
      LET r == response[p] IN
      /\ \A row \in r.Accounts :
           row.IsConsistent = (row.CachedBalance = row.DerivedBalance)
      /\ {"LedgerBalanced", "TotalDebits", "TotalCredits"} \subseteq DOMAIN r
      /\ r.LedgerBalanced = (r.TotalDebits = r.TotalCredits)
      /\ r.AllConsistent = ((\A row \in r.Accounts : row.IsConsistent) /\ r.LedgerBalanced)

\* -------------------------------------------------------------------- C19
\* the entry on account a that was inserted last: transactions on one account
\* are serialized by its row lock, so their ids follow their commit order, and
\* within a transaction the CREDIT entry is inserted after the DEBIT entry
LatestEntries(a) ==
  {e \in ledger_entries :
     /\ e.account_id = a
     /\ \A f \in ledger_entries :
          f.account_id = a =>
            \/ f.transaction_id < e.transaction_id
            \/ (f.transaction_id = e.transaction_id /\
                (f = e \/ e.entry_type = EntryTypeCredit))}

C19_Step ==
  \A p \in Procs :
    CommitsNew(p) =>
      LET s == cmd[p].SourceAccountID
          d == cmd[p].DestAccountID
          m == cmd[p].Amount
          new == ledger_entries' \ ledger_entries
      IN
      /\ \A e \in new :
           e.balance_after =
             IF e.entry_type = EntryTypeDebit
             THEN accounts[e.account_id].balance - e.amount
             ELSE accounts[e.account_id].balance + e.amount
      /\ \E e \in new : e.entry_type = EntryTypeDebit /\ e.account_id = s /\ e.amount = m
      /\ \E e \in new : e.entry_type = EntryTypeCredit /\ e.account_id = d /\ e.amount = m

\* C19: a DEBIT entry records the account's balance before the transaction
\* minus the amount and a CREDIT entry that balance plus the amount; so in
\* every committed state the balance_after of an account's latest entry is the
\* account's cached balance.
C19_BalanceAfter ==
  /\ [][C19_Step]_vars
  /\ [](\A a \in DOMAIN accounts :
          \A e \in LatestEntries(a) : e.balance_after = accounts[a].balance)

\* a user account has been credited and then debited, and another account has
\* entries of its own
C19_Witness ==
  \E a \in UserIDs, b \in UserIDs :
    /\ a # b
    /\ EntriesOn(a, EntryTypeCredit) # {}
    /\ EntriesOn(a, EntryTypeDebit) # {}
    /\ \E e \in LatestEntries(a) : e.entry_type = EntryTypeDebit
    /\ LatestEntries(b) # {}

\* -------------------------------------------------------------------- C20
\* what the operation of call c is to move: from, to, transaction type
Wiring(c) ==
  CASE c.op = "Deposit" ->
         [from |-> SystemAccountID, to |-> c.dest, type |-> TransactionTypeDeposit]
    [] c.op = "Withdraw" ->
         [from |-> c.source, to |-> SystemAccountID, type |-> TransactionTypeWithdrawal]
    [] c.op = "Transfer" ->
         [from |-> c.source, to |-> c.dest, type |-> TransactionTypeTransfer]

C20_Step ==
  \A p \in Procs :
    (/\ CommitsNew(p)
     /\ call[p].op \in {"Deposit", "Withdraw", "Transfer"}
     /\ (call[p].op = "Deposit" => call[p].dest \in UserIDs)
     /\ (call[p].op = "Withdraw" => call[p].source \in UserIDs)) =>
      LET w == Wiring(call[p])
          m == call[p].req.Amount
          new == ledger_entries' \ ledger_entries
      IN
      /\ \E t \in transactions' \ transactions :
           /\ t.id = result'[p].txn
           /\ t.transaction_type = w.type
           /\ t.amount = m
           /\ new = {e \in ledger_entries' : e.transaction_id = t.id}
      /\ {[account_id |-> e.account_id, entry_type |-> e.entry_type, amount |-> e.amount] :
            e \in new}
         = {[account_id |-> w.from, entry_type |-> EntryTypeDebit, amount |-> m],
            [account_id |-> w.to, entry_type |-> EntryTypeCredit, amount |-> m]}
      /\ accounts'[w.from].balance = accounts[w.from].balance - m
      /\ accounts'[w.to].balance = accounts[w.to].balance + m
      /\ \A a \in DOMAIN accounts \ {w.from, w.to} : accounts'[a] = accounts[a]

\* C20: a successful Deposit of m on a USER account debits the system account
\* and credits the account (DEPOSIT), a successful Withdraw debits the account
\* and credits the system account (WITHDRAWAL), a successful Transfer debits
\* its source and credits its destination (TRANSFER); the source's balance
\* falls by exactly m, the destination's rises by exactly m, and no other
\* account changes.
C20_OperationWiring == [][C20_Step]_vars

\* a deposit into a user account and a withdrawal or transfer out of the same
\* account have both committed
C20_Witness ==
  \E p \in Procs, q \in Procs :
    /\ pc[p] = "done" /\ call[p].op = "Deposit" /\ result[p].err = "" /\ result[p].txn # 0
    /\ pc[q] = "done" /\ call[q].op \in {"Withdraw", "Transfer"}
    /\ result[q].err = "" /\ result[q].txn # 0
    /\ result[p].txn # result[q].txn
    /\ call[p].dest = call[q].source
    /\ accounts[SystemAccountID].balance < 0


\* -------------------------------------------------------------------- C21
\* the currencies of the command disagree with the rows the call locked
CurrenciesDiffer(p) ==
  LET c == cmd[p]
      source == accounts[c.SourceAccountID]
      dest == accounts[c.DestAccountID]
  IN \/ source.currency # dest.currency
     \/ (c.Currency # "" /\ c.Currency # source.currency)

C21_Step ==
  \A p \in Procs :
    LET c == cmd[p]
        refused == pc'[p] = "done" /\ result'[p].err = "ErrCurrencyMismatch"
    IN
    /\ (/\ pc[p] = "idem"
        /\ pc'[p] # "idem"
        /\ faults' = faults
        /\ (c.IdempotencyKey = ""
            \/ \A t \in transactions : t.idempotency_key # c.IdempotencyKey)) =>
         (refused <=> CurrenciesDiffer(p))
    /\ (Acts(p) /\ refused) => (CurrenciesDiffer(p) /\ UNCHANGED db)

\* C21 (amended): a call that reaches the currency validation (both accounts
\* locked, no committed transaction under its key) fails with CurrencyMismatch
\* exactly when the two accounts' currencies differ or its non-empty command
\* currency differs from the source's; the refusal changes no account,
\* transaction or entry; every committed transaction's currency equals the
\* currency of both accounts its entries are on.
C21_CurrencyValidation ==
  /\ [][C21_Step]_vars
  /\ [](\A t \in transactions : \A e \in EntriesOf(t) :
          accounts[e.account_id].currency = t.currency)

\* a call stating a currency other than its source's was refused after
\* another transaction had committed
C21_Witness ==
  \E p \in Procs :
    /\ pc[p] = "done"
    /\ result[p].err = "ErrCurrencyMismatch"
    /\ cmd[p].Currency # ""
    /\ accounts[cmd[p].SourceAccountID].currency = accounts[cmd[p].DestAccountID].currency
    /\ cmd[p].Currency # accounts[cmd[p].SourceAccountID].currency
    /\ transactions # {}

\* C21 as stated: whenever a call completes whose accounts' currencies differ,
\* or whose non-empty command currency differs from its source's, it fails
\* with CurrencyMismatch.
C21_RefusedWheneverDiffering ==
  [][\A p \in Procs :
       (/\ Completes(p)
        /\ faults' = faults
        /\ {cmd[p].SourceAccountID, cmd[p].DestAccountID} \subseteq DOMAIN accounts
        /\ CurrenciesDiffer(p)) =>
         result'[p].err = "ErrCurrencyMismatch"]_vars


\* -------------------------------------------------------------------- C22
\* the errors of the domain, as opposed to those of the storage layer
DomainErrors ==
  {"ErrAccountNotFound", "ErrIdempotencyConflict", "ErrCurrencyMismatch",
   "ErrInsufficientFunds", "InvalidRequest", "InvalidAmount", "SelfTransfer"}

\* the storage round-trip the worker p is at is interrupted in this step
Interrupted(p) == pc[p] \in InFlight /\ faults' = faults + 1 /\ Acts(p)

\* C22: when a storage round-trip of ExecuteDoubleEntry (lock, lookup, insert,
\* update, commit) is interrupted, the call ends with its transaction rolled
\* back and its row locks released, nothing it wrote becomes visible, and the
\* error it returns is none of the domain errors.
C22_CancellationRollsBack ==
  [][\A p \in Procs :
       Interrupted(p) =>
         /\ pc'[p] = "done"
         /\ \A i \in AllIDs : lock'[i] # p
         /\ txw'[p] = NoWrites
         /\ UNCHANGED db
         /\ result'[p].err # ""
         /\ result'[p].err \notin DomainErrors]_vars


\* -------------------------------------------------------------------- C23
\* the worker p holds the row locks of both accounts of its command
HoldsBothLocks(p) ==
  lock[cmd[p].SourceAccountID] = p /\ lock[cmd[p].DestAccountID] = p

C23_Step ==
  \A p \in Procs :
    LET k == cmd[p].IdempotencyKey IN
    (pc[p] = "create_txn" /\ Acts(p) /\ faults' = faults /\ k # "") =>
      /\ \A t \in transactions : t.idempotency_key # k
      /\ ~(pc'[p] = "done" /\ result'[p].err = "DatabaseError")

\* C23: the idempotency lookup runs only while the call holds both account
\* locks, and no call reaches the transaction insert with a non-empty key that
\* is already committed: the unique index never turns a reused key into a
\* storage error.
C23_SameKeySerialization ==
  /\ [](\A p \in Procs : pc[p] = "idem" => HoldsBothLocks(p))
  /\ [][C23_Step]_vars


\* -------------------------------------------------------------------- C24
\* the worker p is granted the row lock of account i in this step
Acquires(p, i) == lock[i] # p /\ lock'[i] = p

\* C24: a call acquires its row locks in ascending id order whatever the order
\* of source and destination in its command: every lock it acquires is on a
\* higher id than every lock it holds, every account of its command it has not
\* locked yet has a higher id than those it has, and it holds an account's row
\* in memory only while it holds that account's lock, as read when the lock
\* was granted.
C24_LockOrder ==
  /\ [](\A p \in Procs :
          /\ pc[p] = "lock" =>
               \A i \in {cmd[p].SourceAccountID, cmd[p].DestAccountID} :
                 lock[i] # p => \A j \in AllIDs : lock[j] = p => j < i
          /\ \A i \in DOMAIN accts[p] : lock[i] = p)
  /\ [][\A p \in Procs : \A i \in AllIDs :
          Acquires(p, i) =>
            /\ \A j \in AllIDs : lock[j] = p => j < i
            /\ i \in DOMAIN accts'[p]
            /\ accts'[p][i] = accounts[i]]_vars

\* a withdrawal or transfer whose source has the higher id holds the lock of
\* its destination and waits for the lock of its source, held by the other call
C24_Witness ==
  \E p \in Procs, q \in Procs :
    /\ p # q
    /\ cmd[p].SourceAccountID > cmd[p].DestAccountID
    /\ pc[p] = "lock"
    /\ lock[cmd[p].DestAccountID] = p
    /\ lock[cmd[p].SourceAccountID] = q


\* -------------------------------------------------------------------- C25
\* the committed transactions carrying the key of p's command
CommittedUnderKey(p) ==
  {t \in transactions :
     cmd[p].IdempotencyKey # "" /\ t.idempotency_key = cmd[p].IdempotencyKey}
\* an account p's command names does not exist
NamesMissingAccount(p) ==
  \E i \in {cmd[p].SourceAccountID, cmd[p].DestAccountID} : i \notin DOMAIN accounts
\* p's source is a USER account holding less than the amount
SourceShort(p) ==
  /\ accounts[cmd[p].SourceAccountID].account_type = AccountTypeUser
  /\ accounts[cmd[p].SourceAccountID].balance < cmd[p].Amount

C25_Step ==
  \A p \in Procs :
    LET c == cmd[p]
        existing == CommittedUnderKey(p)
        fails(e) == pc'[p] = "done" /\ result'[p].err = e
    IN
    /\ (Completes(p) /\ faults' = faults /\ NamesMissingAccount(p)) =>
         result'[p].err = "ErrAccountNotFound"
    /\ (pc[p] = "idem" /\ Acts(p) /\ faults' = faults) =>
         /\ ~NamesMissingAccount(p)
         /\ IF \E t \in existing : t.amount # c.Amount \/ t.transaction_type # c.TransactionType
            THEN fails("ErrIdempotencyConflict")
            ELSE IF existing # {}
            THEN /\ pc'[p] = "commit"
                 /\ locals'[p].replay
                 /\ \E t \in existing : locals'[p].txnID = t.id
            ELSE IF CurrenciesDiffer(p) THEN fails("ErrCurrencyMismatch")
            ELSE IF SourceShort(p) THEN fails("ErrInsufficientFunds")
            ELSE pc'[p] = "create_txn"
    /\ (pc[p] = "commit" /\ Acts(p) /\ faults' = faults /\ locals[p].replay) =>
         /\ pc'[p] = "done"
         /\ result'[p].err = ""
         /\ result'[p].txn = locals[p].txnID
         /\ UNCHANGED db

\* C25: ExecuteDoubleEntry checks account existence, then idempotency, then
\* currency, then solvency: a request naming a missing account fails with
\* AccountNotFound whatever its key; with both accounts found, a committed
\* transaction under the key decides the call (conflict or replay) whatever the
\* currencies and the source's balance; otherwise a currency mismatch is
\* reported before a lack of funds.
C25_CheckOrder == [][C25_Step]_vars

\* a replay returned the committed transaction although its USER source no
\* longer holds the amount
C25_Witness ==
  \E p \in Procs, q \in Procs :
    /\ p # q
    /\ pc[p] = "done" /\ pc[q] = "done"
    /\ result[p].err = "" /\ result[q].err = ""
    /\ result[p].txn # 0 /\ result[p].txn = result[q].txn
    /\ cmd[p].SourceAccountID \in UserIDs
    /\ accounts[cmd[p].SourceAccountID].balance < cmd[p].Amount


\* -------------------------------------------------------------------- C26
\* the accounts p's command names
AccountsOf(p) == {cmd[p].SourceAccountID, cmd[p].DestAccountID}
\* p is in flight and has acquired its last lock
PastLocks(p) == pc[p] \in InFlight \ {"lock"}

\* C26: two in-flight calls never hold the row of the same account at once; a
\* call granted a lock reads the committed row, with no write of another call
\* to that account pending, so it sees the balance and version the previous
\* holder committed; of two calls sharing an account only one at a time is past
\* its last lock, so they commit in the order in which they acquired their
\* last lock.
C26_MutualExclusion ==
  /\ [](\A p \in Procs, q \in Procs :
          p # q =>
            /\ DOMAIN accts[p] \cap DOMAIN accts[q] = {}
            /\ (PastLocks(p) /\ PastLocks(q)) => AccountsOf(p) \cap AccountsOf(q) = {})
  /\ [][\A q \in Procs : \A i \in AllIDs :
          Acquires(q, i) =>
            /\ accts'[q][i] = accounts[i]
            /\ \A p \in Procs \ {q} : i \notin DOMAIN txw[p].accounts]_vars

\* the second of two calls on one account holds its lock after the first has
\* committed, and has read the row the first wrote
C26_Witness ==
  \E p \in Procs, q \in Procs : \E i \in AccountsOf(p) \cap AccountsOf(q) :
    /\ p # q
    /\ pc[p] = "done" /\ result[p].err = "" /\ result[p].txn # 0
    /\ \E e \in ledger_entries : e.transaction_id = result[p].txn /\ e.account_id = i
    /\ PastLocks(q)
    /\ i \in DOMAIN accts[q]
    /\ accts[q][i].version > 0
    /\ accts[q][i] = accounts[i]


\* -------------------------------------------------------------------- C27
\* the committed transactions with at least one entry on account a
TransactionsOn(a) ==
  {t \in transactions :
     \E e \in ledger_entries : e.transaction_id = t.id /\ e.account_id = a}
\* the position of t among the transactions on a, newest first
RankOn(a, t) == Cardinality({u \in TransactionsOn(a) : u.id > t.id}) + 1
\* t lies on the page that limit and offset select
OnPage(a, t, limit, offset) ==
  /\ offset > 0 => RankOn(a, t) > offset
  /\ limit > 0 => RankOn(a, t) <= limit + (IF offset > 0 THEN offset ELSE 0)

C27_Step ==
  \A p \in Procs :
    LET a == call[p].source IN
    (call[p].op = "GetTransactions" /\ Acts(p) /\ faults' = faults) =>
      /\ pc[p] = "get_account" =>
           (a \notin DOMAIN accounts
              <=> (pc'[p] = "done" /\ result'[p].err = "ErrAccountNotFound"))
      /\ pc[p] = "find_txns" =>
           LET rows == reading'[p].transactions IN
           /\ {rows[i] : i \in 1..Len(rows)} =
                {t \in TransactionsOn(a) : OnPage(a, t, call[p].limit, call[p].offset)}
           /\ \A i \in 1..Len(rows) : \A j \in 1..Len(rows) :
                i < j => rows[i].id > rows[j].id
      /\ pc[p] = "preload" =>
           LET rows == reading[p].transactions
               body == response'[p].Transactions
           IN
           /\ pc'[p] = "done"
           /\ result'[p].err = ""
           /\ Len(body) = Len(rows)
           /\ \A i \in 1..Len(rows) :
                /\ body[i].ID = rows[i].id
                /\ body[i].Entries = EntriesOf(rows[i])
                /\ Cardinality(body[i].Entries) = 2

\* C27: GetTransactions fails with AccountNotFound when the account does not
\* exist; otherwise it returns exactly the transactions that have an entry on
\* the account, newest first, each once and with its two entries, cut to the
\* page that limit and offset select.
C27_TransactionHistory == [][C27_Step]_vars

\* the second page of size one of an account with two transactions holds the
\* older one, with its two entries
C27_Witness ==
  \E p \in Procs :
    /\ pc[p] = "done"
    /\ call[p].op = "GetTransactions"
    /\ result[p].err = ""
    /\ call[p].limit = 1 /\ call[p].offset = 1
    /\ Cardinality(TransactionsOn(call[p].source)) = 2
    /\ Len(response[p].Transactions) = 1
    /\ \E t \in TransactionsOn(call[p].source) : t.id > response[p].Transactions[1].ID
    /\ Cardinality(response[p].Transactions[1].Entries) = 2


\* -------------------------------------------------------------------- C28
C28_Step ==
  \A p \in Procs :
    /\ \A r \in workload.reads[p] :
         (/\ r.op = "getTransactionsHandler"
          /\ r.account # EmptyID
          /\ getTransactionsHandler(p, r.account, r.limitQuery, r.offsetQuery)) =>
           /\ call'[p].limit \in 1..100
           /\ r.limitQuery = <<>> => call'[p].limit = 50
           /\ call'[p].offset >= 0
    /\ (/\ call[p].op = "GetTransactions"
        /\ pc[p] = "preload"
        /\ Acts(p)
        /\ faults' = faults
        /\ call[p].limit > 0) =>
         Len(response'[p].Transactions) <= call[p].limit

\* C28: a transaction listing requested over the API runs with a limit between
\* 1 and 100, which is 50 when the request has no limit, and with an offset
\* that is not negative; a listing with a positive limit returns at most that
\* many transactions.
C28_PaginationBounds == [][C28_Step]_vars

\* a listing that ran with the default limit returned the account's
\* transactions
C28_Witness ==
  \E p \in Procs :
    /\ pc[p] = "done"
    /\ call[p].op = "GetTransactions"
    /\ result[p].err = ""
    /\ call[p].limit = 50
    /\ call[p].offset = 0
    /\ Len(response[p].Transactions) = 2


\* -------------------------------------------------------------------- C29
\* the committed transactions under the key of p's command that have its amount
\* and type but were made between other accounts
SameRequestOtherAccounts(p) ==
  {t \in CommittedUnderKey(p) :
     /\ t.amount = cmd[p].Amount
     /\ t.transaction_type = cmd[p].TransactionType
     /\ \E e \in EntriesOf(t) :
          \/ e.entry_type = EntryTypeDebit /\ e.account_id # cmd[p].SourceAccountID
          \/ e.entry_type = EntryTypeCredit /\ e.account_id # cmd[p].DestAccountID}

C29_Step ==
  \A p \in Procs :
    (Acts(p) /\ faults' = faults /\ SameRequestOtherAccounts(p) # {}) =>
      /\ pc[p] = "idem" =>
           /\ pc'[p] = "commit"
           /\ locals'[p].replay
           /\ \E t \in SameRequestOtherAccounts(p) : locals'[p].txnID = t.id
           /\ txw'[p] = NoWrites
           /\ UNCHANGED db
      /\ (pc[p] = "commit" /\ locals[p].replay) =>
           /\ pc'[p] = "done"
           /\ result'[p].err = ""
           /\ \E t \in SameRequestOtherAccounts(p) : result'[p].txn = t.id
           /\ UNCHANGED db

\* C29: the idempotency match compares amount and type only: a call whose key
\* is committed with the same amount and type but between other accounts, both
\* of the call's accounts existing, is a replay: it returns the original
\* transaction and changes no account, transaction or entry.
C29_MatchOnAmountAndType == [][C29_Step]_vars

\* a deposit returned the transaction of a deposit to another account, and its
\* own account received nothing
C29_Witness ==
  \E p \in Procs : \E t \in transactions :
    /\ pc[p] = "done"
    /\ result[p].err = ""
    /\ result[p].txn = t.id
    /\ t.idempotency_key = cmd[p].IdempotencyKey
    /\ cmd[p].DestAccountID \in UserIDs
    /\ \A e \in EntriesOf(t) : e.account_id # cmd[p].DestAccountID
    /\ ledger_entries # {}
    /\ \A e \in ledger_entries : e.account_id # cmd[p].DestAccountID
    /\ accounts[cmd[p].DestAccountID].balance = 0


\* -------------------------------------------------------------------- C30
\* C30: every commit of ExecuteDoubleEntry, the one of a command whose source
\* and destination are the same account included, leaves each account of the
\* command whose cached balance equalled its derived balance with a cached
\* balance equal to the sum of its CREDIT entries minus the sum of its DEBIT
\* entries.
C30_EnginePreservesBalance ==
  [][\A p \in Procs : \A a \in {cmd[p].SourceAccountID, cmd[p].DestAccountID} :
       (CommitsNew(p) /\ accounts[a].balance = DerivedOver(ledger_entries, a)) =>
         accounts'[a].balance = DerivedOver(ledger_entries', a)]_vars


\* -------------------------------------------------------------------- C31
\* C31: every commit between two different accounts adds the amount to the
\* destination's balance and takes it from the source's without leaving the
\* int64 range: the credit does not lower the destination's balance (a USER
\* balance stays non-negative) and the debit does not raise the source's.
C31_NoWraparound ==
  [][\A p \in Procs :
       LET s == cmd[p].SourceAccountID
           d == cmd[p].DestAccountID
           m == cmd[p].Amount
       IN (CommitsNew(p) /\ s # d) =>
            /\ accounts'[d].balance = accounts[d].balance + m
            /\ accounts'[s].balance = accounts[s].balance - m
            /\ accounts'[d].balance >= accounts[d].balance
            /\ accounts'[s].balance <= accounts[s].balance
            /\ accounts[d].account_type = AccountTypeUser => accounts'[d].balance >= 0]_vars


\* -------------------------------------------------------------------- C32
\* a call records a failure (a success) in this step
RecordsFailure ==
  \E p \in Procs :
    caller[p].pc = "record" /\ caller'[p].pc = "done" /\ caller[p].err # ""
RecordsSuccess ==
  \E p \in Procs :
    caller[p].pc = "record" /\ caller'[p].pc = "done" /\ caller[p].err = ""
\* a Call is made in this step
CallMade == \E p \in Procs : caller[p].pc = "idle" /\ caller'[p].pc # "idle"
\* Reset runs in this step
ResetRuns ==
  /\ caller' = caller
  /\ now' = now
  /\ cb'.state = Closed /\ cb'.failures = 0 /\ cb'.successes = 0

C32_Step ==
  cb'.state # cb.state =>
    \/ /\ cb.state = Closed /\ cb'.state = Open
       /\ RecordsFailure
       /\ cb'.nextAttempt = now + cb.config.RecoveryTimeout
    \/ /\ cb.state = Open /\ cb'.state = HalfOpen
       /\ CallMade
       /\ now > cb.nextAttempt
    \/ /\ cb.state = HalfOpen /\ cb'.state = Open
       /\ RecordsFailure
       /\ cb'.nextAttempt = now + cb.config.RecoveryTimeout
    \/ /\ cb.state = HalfOpen /\ cb'.state = Closed
       /\ RecordsSuccess
       /\ cb.successes + 1 >= cb.config.SuccessThreshold
    \/ cb'.state = Closed /\ ResetRuns

\* C32: under any interleaving of Call and Reset the breaker's state changes
\* only from Closed to Open (a failure is recorded), from Open to HalfOpen (a
\* Call made after the recovery timeout set at the opening), from HalfOpen to
\* Open (a failure is recorded), from HalfOpen to Closed (the success that
\* reaches SuccessThreshold is recorded) and to Closed by Reset; every
\* recorded failure in HalfOpen opens it.
C32_Transitions ==
  [][/\ C32_Step
     /\ (cb.state = HalfOpen /\ RecordsFailure) => cb'.state = Open]_vars

\* the breaker has been open and is half-open with one success short of
\* closing, and the next success is about to be recorded
C32_Witness ==
  /\ cb.state = HalfOpen
  /\ cb.config.SuccessThreshold > 1
  /\ cb.successes = cb.config.SuccessThreshold - 1
  /\ \E p \in Procs : caller[p].pc = "record" /\ caller[p].err = ""


\* -------------------------------------------------------------------- C33
\* the breaker is open and its recovery timeout has not elapsed
OpenAndWaiting == cb.state = Open /\ ~(now > cb.nextAttempt)
\* the Call of p that is refused in this step
Refused(p) ==
  /\ caller'[p].pc = "done"
  /\ caller'[p].ret = ErrCircuitOpen
  /\ caller'[p].invoked = 0
  /\ cb' = cb
\* the Call of p returns in this step after having run fn once, with fn's error
ReturnsFnError(p) ==
  /\ caller[p].invoked = 1
  /\ caller[p].ret = caller[p].err
  /\ caller[p].err \in FnResults

\* C33: a Call made while the breaker is Open before its timeout has elapsed
\* returns ErrCircuitOpen without invoking fn and leaves the state and the
\* counters as they were; a Call made while it is Closed or HalfOpen goes on to
\* fn, has invoked it exactly once when it returns, and returns what fn
\* returned.
C33_CallOutcome ==
  [][\A p \in Procs :
       /\ (caller[p].pc = "idle" /\ caller'[p].pc # "idle") =>
            /\ OpenAndWaiting => Refused(p)
            /\ cb.state \in {Closed, HalfOpen} =>
                 caller'[p].pc = "fn" /\ caller'[p].invoked = 0
       /\ (caller[p].pc = "fn" /\ caller'[p].pc # "fn") =>
            caller'[p].pc = "record" /\ caller'[p].invoked = 1
       /\ (caller[p].pc = "record" /\ caller'[p].pc # "record") =>
            caller'[p].pc = "done" /\ caller'[p].invoked = 1
       /\ (caller[p].pc = "done" /\ caller'[p].pc = "idle"
           /\ caller[p].state \in {Closed, HalfOpen}) => ReturnsFnError(p)]_vars

\* one call has been refused by the open breaker while another, admitted when
\* the breaker was half-open, has run fn and is returning fn's error
C33_Witness ==
  \E p, q \in Procs :
    /\ caller[p].pc = "done" /\ caller[p].ret = ErrCircuitOpen /\ caller[p].invoked = 0
    /\ cb.state = Open
    /\ caller[q].pc = "done" /\ caller[q].state = HalfOpen
    /\ caller[q].ret = "fn failed" /\ caller[q].invoked = 1


\* -------------------------------------------------------------------- C34
\* C34: while the breaker is Closed a recorded failure adds one to the failure
\* count and opens the breaker exactly when the count reaches FailureThreshold,
\* every recorded success sets the count to 0, nothing else opens a Closed
\* breaker, and for FailureThreshold >= 1 a Closed breaker's failure count is
\* below FailureThreshold in every state, whatever the order in which
\* concurrent calls complete.
C34_ClosedFailureCount ==
  /\ [](cb.state = Closed /\ cb.config.FailureThreshold >= 1
          => cb.failures < cb.config.FailureThreshold)
  /\ [][/\ (cb.state = Closed /\ RecordsFailure) =>
             /\ cb'.failures = cb.failures + 1
             /\ (cb'.state = Open) <=> (cb.failures + 1 >= cb.config.FailureThreshold)
             /\ (cb'.state # Open) => (cb'.state = Closed)
        /\ (RecordsSuccess => cb'.failures = 0)
        /\ (cb.state = Closed /\ cb'.state = Open) => RecordsFailure]_vars

\* a Closed breaker one failure short of its threshold while two calls that
\* failed are both about to record
C34_Witness ==
  /\ cb.state = Closed
  /\ cb.config.FailureThreshold >= 2
  /\ cb.failures = cb.config.FailureThreshold - 1
  /\ \A p \in Procs : caller[p].pc = "record" /\ caller[p].err # ""


\* -------------------------------------------------------------------- C35
\* Execute has returned
Returned == retry.pc = "returned"
\* fn's result is examined in this step
Examines == retry.pc = "check" /\ retry'.pc # "check"

\* C35: Execute of either policy terminates; it never invokes fn more than
\* MaxAttempts times; the first attempt that returns nil makes it return nil
\* with no further invocation; and when MaxAttempts attempts have all failed it
\* returns a MaxRetriesExceededError whose LastError is the last attempt's
\* error.
C35_ExecuteTerminates ==
  /\ <>Returned
  /\ [](retry.calls <= retry.config.MaxAttempts)
  /\ [](Returned /\ retry.calls = retry.config.MaxAttempts /\ retry.err # nilError
          => /\ retry.result.kind = "MaxRetriesExceededError"
             /\ retry.result.err = retry.err
             /\ retry.result.MaxAttempts = retry.config.MaxAttempts)
  /\ [](Returned /\ retry.result.kind = "nil"
          => retry.err = nilError /\ retry.calls = retry.attempt)
  /\ [][/\ (Examines /\ retry.err = nilError) =>
             /\ retry'.pc = "returned"
             /\ retry'.result.kind = "nil"
             /\ retry'.calls = retry.calls
        /\ Returned => retry' = retry]_vars

\* MaxAttempts >= 2 attempts have all failed, the last one with an error that
\* is not retryable, and Execute has returned
C35_Witness ==
  /\ Returned
  /\ retry.config.MaxAttempts >= 2
  /\ retry.calls = retry.config.MaxAttempts
  /\ retry.err # nilError /\ ~isRetryable(retry.err)
  /\ retry.result.kind = "MaxRetriesExceededError"

\* -------------------------------------------------------------------- C36
\* C36: an attempt k < MaxAttempts that fails with an error that is not
\* retryable ends Execute, which returns that error after exactly k
\* invocations of fn; an attempt k = MaxAttempts that fails ends Execute with
\* a MaxRetriesExceededError wrapping that error, whether it is retryable or
\* not.
C36_NonRetryableAndLastAttempt ==
  [][/\ (Examines /\ retry.err # nilError /\ ~MatchesPattern(retry.err)
           /\ retry.attempt < retry.config.MaxAttempts) =>
          /\ retry'.pc = "returned"
          /\ retry'.result = [kind |-> "error", err |-> retry.err, MaxAttempts |-> 0]
          /\ retry'.calls = retry.attempt
     /\ (Examines /\ retry.err # nilError
           /\ retry.attempt = retry.config.MaxAttempts) =>
          /\ retry'.pc = "exceeded"
          /\ retry'.lastErr = retry.err
          /\ retry'.calls = retry.attempt
     /\ (retry.pc = "exceeded" /\ retry'.pc # "exceeded") =>
          /\ retry'.pc = "returned"
          /\ retry'.result.kind = "MaxRetriesExceededError"
          /\ retry'.result.err = retry.lastErr
          /\ retry'.calls = retry.calls
     /\ Returned => retry' = retry]_vars

\* the second of three or more attempts has failed with an error that is not
\* retryable and Execute has returned it
C36_Witness ==
  /\ Returned
  /\ retry.config.MaxAttempts >= 3
  /\ retry.attempt = 2 /\ retry.calls = 2
  /\ retry.result.kind = "error"
  /\ retry.result.err = <<"refused", "connection">>


\* -------------------------------------------------------------------- C37
\* Up has returned
UpReturned == mig.pc = "returned"
\* the context passed to Up was already cancelled (or past its deadline)
AlreadyCancelled == mig.ctx # "nil" /\ mig.atCall # ""
\* neither factory has been called and no migration has been started
NothingCreated == mig.drivers = 0 /\ mig.migrators = 0 /\ mig.gpc = "idle"

\* C37 as stated: whatever db is, Up called with a context that is already
\* cancelled returns the context's error and creates neither driver nor
\* migrator.
C37_CancelledReturnsCtxErr ==
  /\ AlreadyCancelled => NothingCreated
  /\ (UpReturned /\ AlreadyCancelled) => mig.ret = [msg |-> mig.atCall, cause |-> ""]

\* C37: Up called with a db that is not nil and a context that is already
\* cancelled returns the context's error; with or without a db it creates
\* neither the driver nor the migrator and starts no migration.
C37_CancelledWithDBReturnsCtxErr ==
  /\ AlreadyCancelled => NothingCreated
  /\ (UpReturned /\ AlreadyCancelled /\ mig.db # "nil")
       => mig.ret = [msg |-> mig.atCall, cause |-> ""]

\* Up was given a db and a cancelled context and has returned
C37_Witness ==
  /\ UpReturned
  /\ mig.db # "nil"
  /\ mig.atCall = ContextCanceled
  /\ mig.ret.msg = ContextCanceled

\* -------------------------------------------------------------------- C38
\* C38: once the migrator has been created Up does not return before Close
\* has been invoked exactly once, and Close is never invoked twice nor without
\* a migrator; on the ctx.Done() branch Close has been invoked when ctx.Err()
\* is returned, also while m.Up() is still running; and the goroutine that has
\* m.Up()'s result can always send it on errCh, and does.
C38_CloseOnceAndDeliver ==
  /\ [](mig.closeCalls <= 1)
  /\ [](~mig.created => mig.closeCalls = 0)
  /\ []((UpReturned /\ mig.created) => mig.closeCalls = 1)
  /\ [](mig.pc = "returnCtx" => mig.closeCalls = 1)
  /\ [][(mig.pc = "returnCtx" /\ mig'.pc # "returnCtx")
          => mig'.ret = [msg |-> mig.ctxErr, cause |-> ""] /\ mig.ctxErr # ""]_vars
  /\ [](mig.gpc = "send" => ENABLED Deliver)
  /\ (mig.gpc = "send") ~> (mig.gpc = "done")

\* Up has returned the deadline's error after closing the migrator, and m.Up()
\* has only now returned: its result is still to be sent
C38_Witness ==
  /\ UpReturned
  /\ mig.ret.msg = ContextDeadlineExceeded
  /\ mig.closeCalls = 1
  /\ mig.gpc = "send"

====
